---- MODULE Spec2Model ----
(***************************************************************************)
(* A model of the web crawler's scheduler (src/src/scheduler), its entity  *)
(* pool, channel manager and stop sign (src/src/middleware), the analyzer  *)
(* (src/src/analyzer) and the downloader (src/src/downloader).             *)
(*                                                                         *)
(* Two specifications share the variables:                                 *)
(*   PoolSpec  the entity pool alone, driven by concurrent callers of Take *)
(*             and Return;                                                 *)
(*   Spec      one run of the scheduler: Start, the four supervisors, the  *)
(*             workers they spawn, the detached error senders, and Stop.   *)
(*                                                                         *)
(* Strings of the program that the code takes apart (hosts) are sequences  *)
(* of dot-separated labels.  Every goroutine is a record with a position   *)
(* (pc); a step of the model is one atomic region of the code (a region    *)
(* under one lock, one channel operation, or code that touches no shared   *)
(* state).  An unrecovered panic ends the process: crashed names it and no *)
(* action is enabled afterwards.                                           *)
(***************************************************************************)
EXTENDS Integers, Sequences, FiniteSets, TLC

\* ------------------------------------------------------------------------
\* Bounds of the model
\* ------------------------------------------------------------------------
NumEntities == 2      \* capacity of the pool of PoolSpec
NumCallers == 2       \* concurrent callers of the pool in PoolSpec
MaxStops == 2         \* Stop() calls issued by the operator in Spec

\* ------------------------------------------------------------------------
\* Helpers
\* ------------------------------------------------------------------------
Range(s) == {s[i] : i \in 1..Len(s)}

Occurrences(s, x) == Cardinality({i \in 1..Len(s) : s[i] = x})

\* a - b in uint32.  A wrapped difference is 2^32 - (b - a); the model's
\* integers stop at 2^31 - 1, which stands for every wrapped value.
Uint32Sub(a, b) == IF a >= b THEN a - b ELSE 2147483647

\* ------------------------------------------------------------------------
\* getPrimaryDomain (scheduler/helper.go)
\* A host is a sequence of labels; "a.b" is <<"a","b">>, "" is << >>.
\* ------------------------------------------------------------------------
\* labels made of decimal digits only, each a legal octet
OctetLabels == {"0", "1", "10", "127"}

\* labels of exactly two word characters
W2Labels == {"uk", "cn", "tv", "cc", "co", "me", "so"}

\* regexpForIp is not anchored: it matches when some four consecutive labels
\* are <..digit>.<octet>.<octet>.<digit..>
regexpForIp(host) ==
    \E i \in 1..(Len(host) - 3) :
        /\ host[i] \in OctetLabels
        /\ host[i + 1] \in OctetLabels
        /\ host[i + 2] \in OctetLabels
        /\ host[i + 3] \in OctetLabels

\* regexpForDomains, in order.  Each entry is a set of label suffixes the
\* regexp accepts at the end of the host, after a dot.
GenericWithCountry(tld) == {<<tld>>} \cup {<<tld, c>> : c \in W2Labels}

regexpForDomains ==
    << GenericWithCountry("com"), GenericWithCountry("gov"),
       GenericWithCountry("net"), GenericWithCountry("org"),
       {<<"me">>}, {<<"biz">>}, {<<"info">>}, {<<"name">>}, {<<"mobi">>},
       {<<"so">>}, {<<"asia">>}, {<<"tel">>}, {<<"tv">>}, {<<"cc">>},
       {<<"co">>}, {<<c>> : c \in W2Labels} >>

\* The lengths k (in labels) of the suffixes of host that regexp re matches;
\* the match needs a dot in front, so the host has more than k labels.
SuffixMatches(re, host) ==
    {k \in 1..2 : /\ Len(host) > k
                  /\ SubSeq(host, Len(host) - k + 1, Len(host)) \in re}

\* FindStringIndex returns the leftmost match: the longest matching suffix.
\* The result is the number of labels in front of the matched dot (0: none).
FindSuffix(re, host) ==
    LET ks == SuffixMatches(re, host)
    IN  IF ks = {} THEN 0
        ELSE Len(host) - (CHOOSE k \in ks : \A j \in ks : j <= k)

\* the first regexp of the list that matches decides suffixIndex
SuffixIndex(host) ==
    LET hits == {i \in 1..Len(regexpForDomains) :
                     SuffixMatches(regexpForDomains[i], host) # {}}
    IN  IF hits = {} THEN 0
        ELSE FindSuffix(regexpForDomains[CHOOSE i \in hits : \A j \in hits : i <= j],
                        host)

\* [ok |-> the error is nil, pd |-> the returned string]
getPrimaryDomain(host) ==
    IF host = << >> THEN [ok |-> FALSE, pd |-> << >>]
    ELSE IF regexpForIp(host) THEN [ok |-> TRUE, pd |-> host]
    ELSE LET n == SuffixIndex(host)
         IN  IF n > 0
             THEN [ok |-> TRUE, pd |-> SubSeq(host, n, Len(host))]
             ELSE [ok |-> FALSE, pd |-> << >>]

\* ------------------------------------------------------------------------
\* State
\* ------------------------------------------------------------------------
VARIABLES
    \* PoolSpec: one middleware pool and its callers
    pool,           \* myPool: [total, container, idContainer]
    callers,        \* caller -> [pc, ent (the entity of the call in
                    \*   progress, 0 when none), last (the last result)]
    takenSince,     \* history: entity -> "taken" when a Take received it
                    \*   since its last successful Return, "returned" when
                    \*   not, "refused" when a Return of it was refused
                    \*   since, "fresh" before its first Take
    \* Spec: the scheduler
    sched,          \* myScheduler fields: running, crawlDepth, primaryDomain,
                    \*   urlMap, and the parser Start was given
    chanman,        \* myChannelManager: status and the four channels
    stopSign,       \* myStopSign: signed, dealCountMap
    dlpool,         \* downloader pool (a myPool)
    analyzerPool,   \* analyzer pool (a myPool)
    reqCache,       \* requestCache: [cache, closed]
    sups,           \* positions of Start, the four supervisors and Stop
    dlWorkers,      \* download goroutines
    anWorkers,      \* analyze goroutines
    minor,          \* counts of item goroutines and detached error senders
    crashed,        \* "none", or the unrecovered panic that ended the process
    hist            \* history: requests put, pages fetched, results of Stop

poolVars == <<pool, callers, takenSince>>

schedVars == <<sched, chanman, stopSign, dlpool, analyzerPool, reqCache, sups,
               dlWorkers, anWorkers, minor, crashed, hist>>

vars == <<pool, callers, takenSince, sched, chanman, stopSign, dlpool,
          analyzerPool, reqCache, sups, dlWorkers, anWorkers, minor, crashed, hist>>

\* ------------------------------------------------------------------------
\* Entity pool (middleware/pool.go)
\* ------------------------------------------------------------------------
\* NewPool: total entities with ids 1..total, all in the container
NewPool(total) ==
    [total |-> total,
     container |-> [i \in 1..total |-> i],
     idContainer |-> [i \in 1..total |-> TRUE]]

\* Take, first half: entity, ok := <-pool.container (blocks while empty)
TakeReceive(p) == [p EXCEPT !.container = Tail(@)]

\* Take, second half, under the mutex: pool.idContainer[entity.Id()] = false
TakeMark(p, id) == [p EXCEPT !.idContainer[id] = FALSE]

\* A compare-and-set that forgets to compare.
CasWithoutCompare(p, entityId, oldValue, newValue) ==
    IF entityId \notin DOMAIN p.idContainer
    THEN [res |-> -1, pool |-> p]
    ELSE [res |-> 1, pool |-> [p EXCEPT !.idContainer[entityId] = newValue]]

\* compareAndSetForIdContainer, under the mutex: -1 unknown id, 0 the value is
\* not oldValue, 1 set
compareAndSetForIdContainer(p, entityId, oldValue, newValue) ==
    IF entityId \notin DOMAIN p.idContainer
    THEN [res |-> -1, pool |-> p]
    ELSE IF p.idContainer[entityId] # oldValue
    THEN [res |-> 0, pool |-> p]
    ELSE [res |-> 1, pool |-> [p EXCEPT !.idContainer[entityId] = newValue]]

\* A Return that puts the entity back whatever the compare-and-set said.
ReturnPushAlways(res) == TRUE

\* Return: the entity goes back into the container only when casResult == 1
ReturnPushes(res) == res = 1

\* Return, second half: pool.container <- entity
ReturnPush(p, id) == [p EXCEPT !.container = Append(@, id)]

\* the error Return gives for a compare-and-set result
ReturnError(res) ==
    IF res = 1 THEN "ok" ELSE IF res = 0 THEN "already" ELSE "illegal"

Total(p) == p.total

\* used(): pool.total - uint32(len(pool.container))
used(p) == Uint32Sub(p.total, Len(p.container))

\* Take and Return as the scheduler's workers use them: a worker returns the
\* entity it took, once, so the two halves of each call meet no other call on
\* the same entity and are taken in one step.
PoolCanTake(p) == p.container # << >>

PoolTaken(p) == Head(p.container)

\* A Take that leaves the entity in the container.
PoolTakeKeeps(p) == p

PoolTake(p) == TakeMark(TakeReceive(p), Head(p.container))

\* A Return that gives nothing back.
PoolReturnDropped(p, id) == p

PoolReturn(p, id) ==
    LET cas == compareAndSetForIdContainer(p, id, FALSE, TRUE)
    IN  IF ReturnPushes(cas.res) THEN ReturnPush(cas.pool, id) ELSE cas.pool

\* ------------------------------------------------------------------------
\* PoolSpec: NumCallers goroutines call Take and Return on one pool.  The
\* entities come from the genEntity function NewPool was given, so a caller
\* may hold a reference to any of them and pass it, or an entity the pool
\* never held (ForeignId), to Return at any time.
\* ------------------------------------------------------------------------
Entities == 1..NumEntities

Callers == 1..NumCallers

ForeignId == NumEntities + 1

SchedIdle ==
    /\ sched = [running |-> 0]
    /\ chanman = [status |-> 0]
    /\ stopSign = [signed |-> FALSE]
    /\ dlpool = << >>
    /\ analyzerPool = << >>
    /\ reqCache = << >>
    /\ sups = << >>
    /\ dlWorkers = {}
    /\ anWorkers = {}
    /\ minor = << >>
    /\ crashed = "none"
    /\ hist = << >>

PoolInit ==
    /\ pool = NewPool(NumEntities)
    /\ callers = [c \in Callers |->
                    [pc |-> "idle", ent |-> 0, last |-> "none"]]
    /\ takenSince = [e \in Entities |-> "fresh"]
    /\ SchedIdle

\* Take, up to the receive
CallTakeReceive(c) ==
    /\ callers[c].pc = "idle"
    /\ pool.container # << >>
    /\ pool' = TakeReceive(pool)
    /\ callers' = [callers EXCEPT ![c].pc = "take_mark",
                                  ![c].ent = Head(pool.container)]
    /\ takenSince' = [takenSince EXCEPT ![Head(pool.container)] = "taken"]
    /\ UNCHANGED schedVars

\* Take, the marking under the mutex, and the return to the caller
CallTakeMark(c) ==
    /\ callers[c].pc = "take_mark"
    /\ pool' = TakeMark(pool, callers[c].ent)
    /\ callers' = [callers EXCEPT ![c].pc = "idle", ![c].ent = 0,
                                  ![c].last = "taken"]
    /\ UNCHANGED <<takenSince>>
    /\ UNCHANGED schedVars

\* Return(entity), up to the compare-and-set; an error returns at once
CallReturnCas(c, id) ==
    /\ callers[c].pc = "idle"
    /\ LET cas == compareAndSetForIdContainer(pool, id, FALSE, TRUE)
       IN  /\ pool' = cas.pool
           /\ IF ReturnPushes(cas.res)
              THEN callers' = [callers EXCEPT ![c].pc = "ret_push", ![c].ent = id]
              ELSE callers' = [callers EXCEPT ![c].last = ReturnError(cas.res)]
           /\ takenSince' =
                  IF cas.res = 1 THEN [takenSince EXCEPT ![id] = "returned"]
                  ELSE IF cas.res = 0 /\ takenSince[id] \in {"returned", "refused"}
                  THEN [takenSince EXCEPT ![id] = "refused"]
                  ELSE takenSince
    /\ UNCHANGED schedVars

\* Return, the push into the container (blocks while it is full)
CallReturnPush(c) ==
    /\ callers[c].pc = "ret_push"
    /\ Len(pool.container) < pool.total
    /\ pool' = ReturnPush(pool, callers[c].ent)
    /\ callers' = [callers EXCEPT ![c].pc = "idle", ![c].ent = 0,
                                  ![c].last = "ok"]
    /\ UNCHANGED <<takenSince>>
    /\ UNCHANGED schedVars

PoolNext ==
    \E c \in Callers :
        \/ CallTakeReceive(c)
        \/ CallTakeMark(c)
        \/ \E id \in Entities \cup {ForeignId} : CallReturnCas(c, id)
        \/ CallReturnPush(c)

PoolSpec == PoolInit /\ [][PoolNext]_vars

\* the entities checked out: handed to a caller and not given back, or on
\* their way between the FIFO and a caller inside a Take or a Return
CheckedOut ==
    {e \in Entities : ~pool.idContainer[e]}
        \cup {callers[c].ent : c \in {x \in Callers : callers[x].pc \in {"take_mark", "ret_push"}}}

\* C6: pool conservation.  In every reachable state of a pool of capacity N
\* under concurrent Take and Return calls, the number of entities in the FIFO
\* plus the number of entities checked out is N, and used() <= total().
C6_PoolConservation ==
    /\ Len(pool.container) + Cardinality(CheckedOut) = Total(pool)
    /\ used(pool) <= Total(pool)

\* a Take and a Return are both half done, on different entities
C6_Witness ==
    \E c1, c2 \in Callers :
        /\ callers[c1].pc = "take_mark"
        /\ callers[c2].pc = "ret_push"
        /\ callers[c1].ent # callers[c2].ent

NoDuplicates(seq) == \A i, j \in 1..Len(seq) : seq[i] = seq[j] => i = j

\* C7: double-return detection.  A Return of an entity that was given back
\* and not taken since is refused with an error: it pushes nothing and leaves
\* used() as it is.  A Return of an entity whose Take is complete succeeds
\* and its push lowers used() by exactly one.  No entity is ever twice in
\* the FIFO.
C7_DoubleReturn ==
    /\ [](NoDuplicates(pool.container))
    /\ [][\A c \in Callers, id \in Entities :
            /\ (CallReturnCas(c, id) /\ takenSince[id] # "taken") =>
                    /\ callers'[c].last = "already"
                    /\ callers'[c].pc = "idle"
                    /\ pool'.container = pool.container
                    /\ used(pool') = used(pool)
            /\ (CallReturnCas(c, id) /\ ~pool.idContainer[id]) =>
                    callers'[c].pc = "ret_push"
            /\ CallReturnPush(c) =>
                    /\ callers'[c].last = "ok"
                    /\ used(pool') = used(pool) - 1]_vars

\* an entity was returned, returned again with no Take in between and
\* refused, and is once in the FIFO
C7_Witness ==
    \E e \in Entities :
        /\ takenSince[e] = "refused"
        /\ Occurrences(pool.container, e) = 1

\* ------------------------------------------------------------------------
\* The crawl's inputs: a small web site, the parser and the configuration
\* ------------------------------------------------------------------------
\* URL strings, by number.  0 is the seed and 1..4 are the URLs its pages
\* link to.  A second entry point of the site, BurstSeed, is a page of
\* MaxBurst links to pages of the seed's host that link to nothing.
MaxBurst == 2

SiteUrls == 0..4

BurstSeed == Cardinality(SiteUrls)

BurstLeaves == (BurstSeed + 1)..(BurstSeed + MaxBurst)

Urls == SiteUrls \cup {BurstSeed} \cup BurstLeaves

UrlScheme == [u \in Urls |-> IF u = 4 THEN "https" ELSE "http"]

UrlHost ==
    [u \in Urls |->
        CASE u = 1 -> <<"blog", "example", "com">>
          [] u = 2 -> <<"evil", "other", "com">>
          [] u = 3 -> <<"localhost">>
          [] OTHER -> <<"www", "example", "com">>]

\* getPrimaryDomain on the hosts of the site, computed once
Hosts == {UrlHost[u] : u \in Urls}

PrimaryDomainOf == [h \in Hosts |-> getPrimaryDomain(h)]

SeedUrl == 0

\* what the <a> tags and texts of each page make the parser emit, in order
Link(u) == [kind |-> "req", url |-> u]

ItemData == [kind |-> "item", url |-> 0]

PageData ==
    [u \in Urls |->
        CASE u = 0 -> <<Link(1)>>
          [] u = 1 -> <<Link(0), Link(2), Link(3), Link(4), ItemData>>
          [] u = BurstSeed -> [i \in 1..MaxBurst |-> Link(BurstSeed + i)]
          [] OTHER -> << >>]

\* the number of errors the parser returns beside the data of a page
PageErrors == [u \in Urls |-> IF u = 1 THEN 1 ELSE 0]

\* the pages within k link hops of the seed, and a page's distance
RECURSIVE Within(_)
Within(k) ==
    IF k = 0 THEN {SeedUrl}
    ELSE LET prev == Within(k - 1)
         IN  prev \cup UNION {{PageData[u][i].url :
                                   i \in {j \in 1..Len(PageData[u]) :
                                              PageData[u][j].kind = "req"}} : u \in prev}

HopDistance ==
    [u \in Within(Cardinality(Urls)) |->
        CHOOSE k \in 0..Cardinality(Urls) :
            /\ u \in Within(k)
            /\ \A j \in 0..(k - 1) : u \notin Within(j)]

\* the depth a parser writes into the Requests it emits from a response of
\* depth respDepth: "same" is parseForATag, "next" a parser that writes
\* respDepth + 1, which a user may pass to Start
ParserModes == {"same", "next"}

ParserDepth(mode, respDepth) ==
    IF mode = "same" THEN respDepth ELSE respDepth + 1

\* the parser run on a response: the data list it returns
ParseResponse(mode, url, respDepth) ==
    [i \in 1..Len(PageData[url]) |->
        IF PageData[url][i].kind = "req"
        THEN [kind |-> "req", url |-> PageData[url][i].url,
              depth |-> ParserDepth(mode, respDepth)]
        ELSE [kind |-> "item", url |-> 0, depth |-> 0]]

CrawlDepths == 0..1

\* ChannelArgs and PoolBaseArgs given to Start
ReqChanLen == 1
RespChanLen == 1
ItemChanLen == 1
ErrorChanLen == 1
PageDownloaderPoolSize == 1
AnalyzerPoolSize == 1

\* ------------------------------------------------------------------------
\* Stop sign (middleware, stop sign file)
\* ------------------------------------------------------------------------
\* codes of the handlers of the stop sign: prefix and entity id (0: none)
Code(prefix, id) == <<prefix, id>>

SCHEDULER_CODE == Code("scheduler", 0)

ITEMPIPELINE_CODE == Code("item_pipeline", 0)

Codes == {SCHEDULER_CODE, ITEMPIPELINE_CODE}
            \cup {Code("downloader", i) : i \in 1..PageDownloaderPoolSize}
            \cup {Code("analyzer", i) : i \in 1..AnalyzerPoolSize}

NewStopSign == [signed |-> FALSE, dealCountMap |-> [c \in Codes |-> 0]]

Sign(ss) == [ss EXCEPT !.signed = TRUE]

Signed(ss) == ss.signed

\* A Deal that counts whether or not the flag is set.
DealUnguarded(ss, code) == [ss EXCEPT !.dealCountMap[code] = @ + 1]

Deal(ss, code) ==
    IF ~ss.signed THEN ss
    ELSE [ss EXCEPT !.dealCountMap[code] = @ + 1]

\* ------------------------------------------------------------------------
\* Channel manager (middleware/chanmanager.go)
\* ------------------------------------------------------------------------
CHANNEL_MANAGER_STATUS_UNINITIALIZED == 0
CHANNEL_MANAGER_STATUS_INITIALIZED == 1
CHANNEL_MANAGER_STATUS_CLOSED == 2

\* NewChannelManager: Init(channelArgs, true).  The item and error channels
\* carry values the scheduler never looks into: their lengths stand for them.
NewChannelManager ==
    [status |-> CHANNEL_MANAGER_STATUS_INITIALIZED,
     reqCh |-> << >>, respCh |-> << >>, itemCh |-> 0, errorCh |-> 0]

\* Close: closes the four channels (status CLOSED is "the channels are closed")
Close(cm) ==
    IF cm.status # CHANNEL_MANAGER_STATUS_INITIALIZED THEN cm
    ELSE [cm EXCEPT !.status = CHANNEL_MANAGER_STATUS_CLOSED]

\* checkStatus: the accessors ReqChan, RespChan, ItemChan, ErrorChan return
\* an error unless the status is INITIALIZED
checkStatus(cm) == cm.status = CHANNEL_MANAGER_STATUS_INITIALIZED

ChannelsClosed(cm) == cm.status = CHANNEL_MANAGER_STATUS_CLOSED

\* ------------------------------------------------------------------------
\* Request cache: a FIFO with a closed state.  Its code is not among the
\* sources; it is modelled from the specification (4.4 and the lifecycles).
\* ------------------------------------------------------------------------
newRequestCache == [cache |-> << >>, closed |-> FALSE]

CachePut(rc, req) == IF rc.closed THEN rc ELSE [rc EXCEPT !.cache = Append(@, req)]

CacheHasNext(rc) == ~rc.closed /\ rc.cache # << >>

CacheGet(rc) == [rc EXCEPT !.cache = Tail(@)]

CacheClose(rc) == [rc EXCEPT !.closed = TRUE]

\* ------------------------------------------------------------------------
\* Analyzer (analyzer/analyzer.go)
\* ------------------------------------------------------------------------
NewRequest(url, depth) == [kind |-> "req", url |-> url, depth |-> depth]

\* appendDataList: builds the Request with the depth respDepth+1 in req, and
\* appends data
appendDataList(dataList, data, respDepth) ==
    IF data.kind # "req" THEN Append(dataList, data)
    ELSE LET newDepth == respDepth + 1
             req == IF data.depth # newDepth THEN NewRequest(data.url, newDepth)
                    ELSE data
         IN  Append(dataList, data)

RECURSIVE AppendAll(_, _, _)
AppendAll(dataList, pDataList, respDepth) ==
    IF pDataList = << >> THEN dataList
    ELSE AppendAll(appendDataList(dataList, Head(pDataList), respDepth),
                   Tail(pDataList), respDepth)

\* Analyze with the one parser of the run: the data list and the number of
\* errors
Analyze(mode, resp) ==
    [dataList |-> AppendAll(<< >>, ParseResponse(mode, resp.url, resp.depth), resp.depth),
     errs |-> PageErrors[resp.url]]

\* ------------------------------------------------------------------------
\* Downloader (downloader/downloader.go)
\* ------------------------------------------------------------------------
\* Download: an error when the HTTP request fails, or the response with the
\* depth of the request
Download(req, fails) ==
    IF fails THEN [ok |-> FALSE, resp |-> req]
    ELSE [ok |-> TRUE, resp |-> [id |-> req.id, url |-> req.url, depth |-> req.depth]]

\* ------------------------------------------------------------------------
\* Scheduler (scheduler/scheduler.go): saveReqToCache's rules
\* ------------------------------------------------------------------------
\* A depth rule that lets one level too many through.
DepthAllowedOffByOne(depth, crawlDepth) == ~(depth > crawlDepth + 1)

\* line 369: req.Depth() > sched.crawlDepth rejects
DepthAllowed(depth, crawlDepth) == ~(depth > crawlDepth)

\* A domain rule that accepts a host whose primary domain cannot be found.
DomainAllowedOrUnknown(host, primaryDomain) ==
    \/ PrimaryDomainOf[host].pd = primaryDomain
    \/ ~PrimaryDomainOf[host].ok

\* line 365: pd, _ := getPrimaryDomain(httpReq.Host); pd != sched.primaryDomain
\* rejects
DomainAllowed(host, primaryDomain) == PrimaryDomainOf[host].pd = primaryDomain

\* lines 346-372: the rules before the stop sign, in order; "ok" or the rule
\* that rejects
saveReqRules(sch, req) ==
    IF UrlScheme[req.url] # "http" THEN "scheme"
    ELSE IF req.url \in sch.urlMap THEN "repeated"
    ELSE IF ~DomainAllowed(UrlHost[req.url], sch.primaryDomain) THEN "domain"
    ELSE IF ~DepthAllowed(req.depth, sch.crawlDepth) THEN "depth"
    ELSE "ok"

\* ------------------------------------------------------------------------
\* Spec: one run of the scheduler
\* ------------------------------------------------------------------------
Init ==
    /\ pool = NewPool(NumEntities)
    /\ callers = << >>
    /\ takenSince = << >>
    /\ sched = [running |-> 0, crawlDepth |-> 0, primaryDomain |-> << >>,
                urlMap |-> {}, parser |-> "same"]
    /\ chanman = [status |-> CHANNEL_MANAGER_STATUS_UNINITIALIZED,
                  reqCh |-> << >>, respCh |-> << >>, itemCh |-> 0, errorCh |-> 0]
    /\ stopSign = NewStopSign
    /\ dlpool = NewPool(PageDownloaderPoolSize)
    /\ analyzerPool = NewPool(AnalyzerPoolSize)
    /\ reqCache = newRequestCache
    /\ sups = [start |-> "init", wg |-> 0, dl |-> "off", an |-> "off",
               item |-> "off", feeder |-> "off", remainder |-> 0,
               stop |-> "idle", stops |-> 0]
    /\ dlWorkers = {}
    /\ anWorkers = {}
    /\ minor = [itemSend |-> 0, errSend |-> 0]
    /\ crashed = "none"
    /\ hist = [nextId |-> 1, puts |-> {}, fetched |-> {}, stopRet |-> << >>,
               closedSend |-> FALSE]

Alive == crashed = "none"

\* An unrecovered panic: the runtime ends the process.  Nothing of the
\* process is left but what the run was started with; the history stays.
Panic(kind) ==
    /\ crashed' = kind
    /\ sched' = [sched EXCEPT !.urlMap = {}]
    /\ chanman' = [status |-> CHANNEL_MANAGER_STATUS_UNINITIALIZED,
                   reqCh |-> << >>, respCh |-> << >>, itemCh |-> 0, errorCh |-> 0]
    /\ stopSign' = NewStopSign
    /\ dlpool' = NewPool(PageDownloaderPoolSize)
    /\ analyzerPool' = NewPool(AnalyzerPoolSize)
    /\ reqCache' = newRequestCache
    /\ sups' = [sups EXCEPT !.dl = "dead", !.an = "dead", !.item = "dead",
                            !.feeder = "dead", !.stop = "dead", !.wg = 0,
                            !.remainder = 0]
    /\ dlWorkers' = {}
    /\ anWorkers' = {}
    /\ minor' = [itemSend |-> 0, errSend |-> 0]
    /\ hist' = hist
    /\ UNCHANGED poolVars

\* A goroutine at a channel operation calls the accessor of the channel
\* manager (getReqchan, getRespchan, getItemChan, getErrorChan, which panic
\* on its error) and then sends or receives.  The accessor reads the status
\* under the read lock and changes nothing, and only Close changes the
\* status, once.  So an operation on the open channel is one step, and a
\* goroutine that finds the channels closed was either before the accessor
\* when Close ran (the accessor panics) or past it (the operation meets the
\* closed channel): both are steps of the model.

\* sendError(err, code) with err # nil: lines 261-268
SendErrorSign(code) == IF Signed(stopSign) THEN Deal(stopSign, code) ELSE stopSign

SendErrorSpawns == IF Signed(stopSign) THEN 0 ELSE 1

\* Start with valid arguments, lines 96-156, up to wg.Wait: the supervisors
\* it spawns find an empty cache until the seed is put, so the lines are one
\* step.
StartSeed(seed, crawlDepth, parser) ==
    /\ Alive
    /\ sups.start = "init"
    /\ sched.running # 1
    /\ PrimaryDomainOf[UrlHost[seed]].ok
    /\ sched' = [running |-> 1, crawlDepth |-> crawlDepth,
                 primaryDomain |-> PrimaryDomainOf[UrlHost[seed]].pd,
                 urlMap |-> {}, parser |-> parser]
    /\ chanman' = NewChannelManager
    /\ dlpool' = NewPool(PageDownloaderPoolSize)
    /\ analyzerPool' = NewPool(AnalyzerPoolSize)
    /\ stopSign' = NewStopSign
    /\ reqCache' = CachePut(newRequestCache,
                            [id |-> hist.nextId, url |-> seed, depth |-> 0])
    /\ sups' = [sups EXCEPT !.start = "waiting", !.wg = 4, !.dl = "recv",
                            !.an = "recv", !.item = "get", !.feeder = "check"]
    /\ hist' = [hist EXCEPT !.nextId = @ + 1,
                            !.puts = @ \cup {[id |-> hist.nextId, url |-> seed,
                                              depth |-> 0, from |-> -1]}]
    /\ UNCHANGED <<dlWorkers, anWorkers, minor, crashed>>
    /\ UNCHANGED poolVars

Start(crawlDepth, parser) == StartSeed(SeedUrl, crawlDepth, parser)

\* Start, line 157: wg.Wait() returns
StartReturn ==
    /\ Alive
    /\ sups.start = "waiting"
    /\ sups.wg = 0
    /\ sups' = [sups EXCEPT !.start = "returned"]
    /\ UNCHANGED <<sched, chanman, stopSign, dlpool, analyzerPool, reqCache,
                   dlWorkers, anWorkers, minor, crashed, hist>>
    /\ UNCHANGED poolVars

\* ---- the feeder, schedule() ----
\* lines 410-413: the stop sign
FeederCheck ==
    /\ Alive
    /\ sups.feeder = "check"
    /\ IF Signed(stopSign)
       THEN /\ stopSign' = Deal(stopSign, SCHEDULER_CODE)
            /\ sups' = [sups EXCEPT !.feeder = "done", !.wg = @ - 1]
       ELSE /\ stopSign' = stopSign
            /\ sups' = [sups EXCEPT !.feeder = "rem"]
    /\ UNCHANGED <<sched, chanman, dlpool, analyzerPool, reqCache,
                   dlWorkers, anWorkers, minor, crashed, hist>>
    /\ UNCHANGED poolVars

\* A remainder that takes the capacity for the free room.
RemainderOfCap(ch) == ReqChanLen

\* A remainder of no room.
RemainderNone(ch) == 0

\* cap(ch) - len(ch) of the request channel
Remainder(ch) == ReqChanLen - Len(ch)

\* line 414: remainder := cap(getReqchan()) - len(getReqchan())
FeederRemainder ==
    /\ Alive
    /\ sups.feeder = "rem"
    /\ checkStatus(chanman)
    /\ sups' = [sups EXCEPT !.feeder = "drain",
                            !.remainder = Remainder(chanman.reqCh)]
    /\ UNCHANGED <<sched, chanman, stopSign, dlpool, analyzerPool, reqCache,
                   dlWorkers, anWorkers, minor, crashed, hist>>
    /\ UNCHANGED poolVars

\* line 414 after Close: getReqchan panics, in a goroutine that recovers
\* nothing
FeederRemainderPanic ==
    /\ Alive
    /\ sups.feeder = "rem"
    /\ ~checkStatus(chanman)
    /\ Panic("feeder: ReqChan")

\* lines 416-422: one turn of the loop (get from the cache, send, count
\* down); line 424 when the loop ends
FeederDrain ==
    /\ Alive
    /\ sups.feeder = "drain"
    /\ IF sups.remainder > 0 /\ CacheHasNext(reqCache)
       THEN /\ checkStatus(chanman)
            /\ Len(chanman.reqCh) < ReqChanLen
            /\ reqCache' = CacheGet(reqCache)
            /\ chanman' = [chanman EXCEPT !.reqCh = Append(@, Head(reqCache.cache))]
            /\ sups' = [sups EXCEPT !.remainder = @ - 1]
       ELSE /\ sups' = [sups EXCEPT !.feeder = "check", !.remainder = 0]
            /\ UNCHANGED <<reqCache, chanman>>
    /\ UNCHANGED <<sched, stopSign, dlpool, analyzerPool,
                   dlWorkers, anWorkers, minor, crashed, hist>>
    /\ UNCHANGED poolVars

\* line 421 after Close: getReqchan panics
FeederSendPanic ==
    /\ Alive
    /\ sups.feeder = "drain"
    /\ sups.remainder > 0 /\ CacheHasNext(reqCache)
    /\ ~checkStatus(chanman)
    /\ Panic("feeder: ReqChan")

\* line 421, Close between the accessor and the send: send on a closed
\* channel
FeederSendClosed ==
    /\ Alive
    /\ sups.feeder = "drain"
    /\ sups.remainder > 0 /\ CacheHasNext(reqCache)
    /\ ChannelsClosed(chanman)
    /\ Panic("feeder: send on closed channel")

\* ---- the download stage ----
\* lines 165-170: a request received starts a download goroutine
DlSupRecv ==
    /\ Alive
    /\ sups.dl \in {"recv", "recv_open"}
    /\ sups.dl = "recv" => checkStatus(chanman)
    /\ chanman.reqCh # << >>
    /\ chanman' = [chanman EXCEPT !.reqCh = Tail(@)]
    /\ dlWorkers' = dlWorkers \cup
           {[req |-> Head(chanman.reqCh), pc |-> "take", ent |-> 0]}
    /\ sups' = [sups EXCEPT !.dl = "recv"]
    /\ UNCHANGED <<sched, stopSign, dlpool, analyzerPool, reqCache,
                   anWorkers, minor, crashed, hist>>
    /\ UNCHANGED poolVars

\* line 166 after Close, the supervisor past getReqchan: what the channel
\* still holds is received, in the next step; closed and empty it yields
\* !ok and the supervisor ends
DlSupClosed ==
    /\ Alive
    /\ sups.dl = "recv"
    /\ ChannelsClosed(chanman)
    /\ IF chanman.reqCh # << >>
       THEN sups' = [sups EXCEPT !.dl = "recv_open"]
       ELSE sups' = [sups EXCEPT !.dl = "done", !.wg = @ - 1]
    /\ UNCHANGED <<sched, chanman, stopSign, dlpool, analyzerPool, reqCache,
                   dlWorkers, anWorkers, minor, crashed, hist>>
    /\ UNCHANGED poolVars

\* line 166 after Close, the supervisor before getReqchan: it panics
DlSupPanic ==
    /\ Alive
    /\ sups.dl = "recv"
    /\ ~checkStatus(chanman)
    /\ Panic("download supervisor: ReqChan")

\* the end of download(): the deferred Return of the downloader
DlEnd(w) ==
    /\ dlpool' = PoolReturn(dlpool, w.ent)
    /\ dlWorkers' = dlWorkers \ {w}

\* lines 214-228: Take, Id and Download, whose HTTP request fails or not
DlTake(w, fails) ==
    /\ Alive
    /\ w.pc = "take"
    /\ PoolCanTake(dlpool)
    /\ dlpool' = PoolTake(dlpool)
    /\ dlWorkers' = (dlWorkers \ {w}) \cup
           {[w EXCEPT !.ent = PoolTaken(dlpool),
                      !.pc = IF Download(w.req, fails).ok THEN "resp" ELSE "err"]}
    /\ hist' = [hist EXCEPT !.fetched = @ \cup {w.req}]
    /\ UNCHANGED <<sched, chanman, stopSign, analyzerPool, reqCache, sups,
                   anWorkers, minor, crashed>>
    /\ UNCHANGED poolVars

\* sendResp, lines 238-241: the stop sign
DlSendRespCheck(w) ==
    /\ Alive
    /\ w.pc = "resp"
    /\ IF Signed(stopSign)
       THEN /\ stopSign' = Deal(stopSign, Code("downloader", w.ent))
            /\ DlEnd(w)
       ELSE /\ stopSign' = stopSign
            /\ dlWorkers' = (dlWorkers \ {w}) \cup {[w EXCEPT !.pc = "resp_send"]}
            /\ dlpool' = dlpool
    /\ UNCHANGED <<sched, chanman, analyzerPool, reqCache, sups,
                   anWorkers, minor, crashed, hist>>
    /\ UNCHANGED poolVars

\* sendResp, line 242: sched.getRespchan() <- resp
DlSendResp(w) ==
    /\ Alive
    /\ w.pc = "resp_send"
    /\ checkStatus(chanman)
    /\ Len(chanman.respCh) < RespChanLen
    /\ chanman' = [chanman EXCEPT !.respCh = Append(@, Download(w.req, FALSE).resp)]
    /\ DlEnd(w)
    /\ UNCHANGED <<sched, stopSign, analyzerPool, reqCache, sups,
                   anWorkers, minor, crashed, hist>>
    /\ UNCHANGED poolVars

\* line 242 after Close: getRespchan panics; download() recovers
DlSendRespPanic(w) ==
    /\ Alive
    /\ w.pc = "resp_send"
    /\ ~checkStatus(chanman)
    /\ DlEnd(w)
    /\ UNCHANGED <<sched, chanman, stopSign, analyzerPool, reqCache, sups,
                   anWorkers, minor, crashed, hist>>
    /\ UNCHANGED poolVars

\* line 242, Close between the accessor and the send, or during a send
\* blocked on the full channel: send on a closed channel; download() recovers
DlSendRespClosed(w) ==
    /\ Alive
    /\ w.pc = "resp_send"
    /\ ChannelsClosed(chanman)
    /\ hist' = [hist EXCEPT !.closedSend = TRUE]
    /\ DlEnd(w)
    /\ UNCHANGED <<sched, chanman, stopSign, analyzerPool, reqCache, sups,
                   anWorkers, minor, crashed>>
    /\ UNCHANGED poolVars

\* lines 232-234: sendError(err, code)
DlSendError(w) ==
    /\ Alive
    /\ w.pc = "err"
    /\ stopSign' = SendErrorSign(Code("downloader", w.ent))
    /\ minor' = [minor EXCEPT !.errSend = @ + SendErrorSpawns]
    /\ DlEnd(w)
    /\ UNCHANGED <<sched, chanman, analyzerPool, reqCache, sups,
                   anWorkers, crashed, hist>>
    /\ UNCHANGED poolVars

\* ---- the detached goroutines of sendError, lines 265-267 ----
\* sched.getErrorChan() <- cError
ErrSenderSend ==
    /\ Alive
    /\ minor.errSend > 0
    /\ checkStatus(chanman)
    /\ chanman.errorCh < ErrorChanLen
    /\ chanman' = [chanman EXCEPT !.errorCh = @ + 1]
    /\ minor' = [minor EXCEPT !.errSend = @ - 1]
    /\ UNCHANGED <<sched, stopSign, dlpool, analyzerPool, reqCache, sups,
                   dlWorkers, anWorkers, crashed, hist>>
    /\ UNCHANGED poolVars

\* line 266 after Close: getErrorChan panics, in a goroutine that recovers
\* nothing
ErrSenderPanic ==
    /\ Alive
    /\ minor.errSend > 0
    /\ ~checkStatus(chanman)
    /\ Panic("error sender: ErrorChan")

\* line 266, Close between the accessor and the send, or during a send
\* blocked on the full channel
ErrSenderClosed ==
    /\ Alive
    /\ minor.errSend > 0
    /\ ChannelsClosed(chanman)
    /\ Panic("error sender: send on closed channel")

\* the caller of ErrorChan() reads an error from the channel it was given
ErrorChanRead ==
    /\ Alive
    /\ chanman.errorCh > 0
    /\ chanman' = [chanman EXCEPT !.errorCh = @ - 1]
    /\ UNCHANGED <<sched, stopSign, dlpool, analyzerPool, reqCache, sups,
                   dlWorkers, anWorkers, minor, crashed, hist>>
    /\ UNCHANGED poolVars

\* ---- the analyze stage ----
\* lines 275-280: a response received starts an analyze goroutine
AnSupRecv ==
    /\ Alive
    /\ sups.an \in {"recv", "recv_open"}
    /\ sups.an = "recv" => checkStatus(chanman)
    /\ chanman.respCh # << >>
    /\ chanman' = [chanman EXCEPT !.respCh = Tail(@)]
    /\ anWorkers' = anWorkers \cup
           {[resp |-> Head(chanman.respCh), pc |-> "take", ent |-> 0,
             errs |-> 0, i |-> 1]}
    /\ sups' = [sups EXCEPT !.an = "recv"]
    /\ UNCHANGED <<sched, stopSign, dlpool, analyzerPool, reqCache,
                   dlWorkers, minor, crashed, hist>>
    /\ UNCHANGED poolVars

\* line 276 after Close, the supervisor past getRespchan
AnSupClosed ==
    /\ Alive
    /\ sups.an = "recv"
    /\ ChannelsClosed(chanman)
    /\ IF chanman.respCh # << >>
       THEN sups' = [sups EXCEPT !.an = "recv_open"]
       ELSE sups' = [sups EXCEPT !.an = "done", !.wg = @ - 1]
    /\ UNCHANGED <<sched, chanman, stopSign, dlpool, analyzerPool, reqCache,
                   dlWorkers, anWorkers, minor, crashed, hist>>
    /\ UNCHANGED poolVars

\* line 276 after Close, the supervisor before getRespchan: it panics
AnSupPanic ==
    /\ Alive
    /\ sups.an = "recv"
    /\ ~checkStatus(chanman)
    /\ Panic("analyze supervisor: RespChan")

\* line 307: the data list of the worker's response
DataOf(w) == Analyze(sched.parser, w.resp).dataList

\* The worker w goes on as w2, or ends when w2 is past the last data: the
\* deferred Return of the analyzer.  p is the pool as the step leaves it.
AnGoOn(p, w, w2) ==
    IF w2.pc = "data" /\ w2.i > Len(DataOf(w))
    THEN /\ anWorkers' = anWorkers \ {w}
         /\ analyzerPool' = PoolReturn(p, w2.ent)
    ELSE /\ anWorkers' = (anWorkers \ {w}) \cup {w2}
         /\ analyzerPool' = p

\* a panic of the worker, recovered by analyze(): the deferred Return
AnEnd(w) ==
    /\ anWorkers' = anWorkers \ {w}
    /\ analyzerPool' = PoolReturn(analyzerPool, w.ent)

\* lines 293-307: Take, Id and Analyze
AnTake(w) ==
    /\ Alive
    /\ w.pc = "take"
    /\ PoolCanTake(analyzerPool)
    /\ LET errs == Analyze(sched.parser, w.resp).errs
       IN  AnGoOn(PoolTake(analyzerPool), w,
                  [w EXCEPT !.ent = PoolTaken(analyzerPool), !.errs = errs,
                            !.pc = IF errs > 0 THEN "errs" ELSE "data"])
    /\ UNCHANGED <<sched, chanman, stopSign, dlpool, reqCache, sups,
                   dlWorkers, minor, crashed, hist>>
    /\ UNCHANGED poolVars

\* lines 308-312: sendError for one error of Analyze
AnSendError(w) ==
    /\ Alive
    /\ w.pc = "errs"
    /\ stopSign' = SendErrorSign(Code("analyzer", w.ent))
    /\ minor' = [minor EXCEPT !.errSend = @ + SendErrorSpawns]
    /\ AnGoOn(analyzerPool, w,
              [w EXCEPT !.errs = @ - 1, !.pc = IF w.errs > 1 THEN "errs" ELSE "data"])
    /\ UNCHANGED <<sched, chanman, dlpool, reqCache, sups,
                   dlWorkers, crashed, hist>>
    /\ UNCHANGED poolVars

\* lines 314-322 for an Item: sendItem, lines 337-340, the stop sign
AnSendItemCheck(w) ==
    /\ Alive
    /\ w.pc = "data"
    /\ DataOf(w)[w.i].kind = "item"
    /\ IF Signed(stopSign)
       THEN /\ stopSign' = Deal(stopSign, Code("analyzer", w.ent))
            /\ AnGoOn(analyzerPool, w, [w EXCEPT !.i = @ + 1])
       ELSE /\ stopSign' = stopSign
            /\ AnGoOn(analyzerPool, w, [w EXCEPT !.pc = "item_send"])
    /\ UNCHANGED <<sched, chanman, dlpool, reqCache, sups,
                   dlWorkers, minor, crashed, hist>>
    /\ UNCHANGED poolVars

\* sendItem, line 341: sched.getItemChan() <- item
AnSendItem(w) ==
    /\ Alive
    /\ w.pc = "item_send"
    /\ checkStatus(chanman)
    /\ chanman.itemCh < ItemChanLen
    /\ chanman' = [chanman EXCEPT !.itemCh = @ + 1]
    /\ AnGoOn(analyzerPool, w, [w EXCEPT !.pc = "data", !.i = @ + 1])
    /\ UNCHANGED <<sched, stopSign, dlpool, reqCache, sups,
                   dlWorkers, minor, crashed, hist>>
    /\ UNCHANGED poolVars

\* line 341 after Close: getItemChan panics; analyze() recovers
AnSendItemPanic(w) ==
    /\ Alive
    /\ w.pc = "item_send"
    /\ ~checkStatus(chanman)
    /\ AnEnd(w)
    /\ UNCHANGED <<sched, chanman, stopSign, dlpool, reqCache, sups,
                   dlWorkers, minor, crashed, hist>>
    /\ UNCHANGED poolVars

\* line 341, Close between the accessor and the send, or during a blocked
\* send: send on a closed channel; analyze() recovers
AnSendItemClosed(w) ==
    /\ Alive
    /\ w.pc = "item_send"
    /\ ChannelsClosed(chanman)
    /\ hist' = [hist EXCEPT !.closedSend = TRUE]
    /\ AnEnd(w)
    /\ UNCHANGED <<sched, chanman, stopSign, dlpool, reqCache, sups,
                   dlWorkers, minor, crashed>>
    /\ UNCHANGED poolVars

\* lines 314-322 for a Request: saveReqToCache, lines 346-376, the rules
\* and the stop sign
AnSaveReqCheck(w) ==
    /\ Alive
    /\ w.pc = "data"
    /\ DataOf(w)[w.i].kind = "req"
    /\ IF saveReqRules(sched, DataOf(w)[w.i]) # "ok"
       THEN /\ stopSign' = stopSign
            /\ AnGoOn(analyzerPool, w, [w EXCEPT !.i = @ + 1])
       ELSE IF Signed(stopSign)
       THEN /\ stopSign' = Deal(stopSign, Code("analyzer", w.ent))
            /\ AnGoOn(analyzerPool, w, [w EXCEPT !.i = @ + 1])
       ELSE /\ stopSign' = stopSign
            /\ AnGoOn(analyzerPool, w, [w EXCEPT !.pc = "req_put"])
    /\ UNCHANGED <<sched, chanman, dlpool, reqCache, sups,
                   dlWorkers, minor, crashed, hist>>
    /\ UNCHANGED poolVars

\* saveReqToCache, lines 377-378: the put and the entry of the URL map
AnSaveReqPut(w) ==
    /\ Alive
    /\ w.pc = "req_put"
    /\ LET d == DataOf(w)[w.i]
           req == [id |-> hist.nextId, url |-> d.url, depth |-> d.depth]
       IN  /\ reqCache' = CachePut(reqCache, req)
           /\ sched' = [sched EXCEPT !.urlMap = @ \cup {d.url}]
           /\ hist' = IF reqCache.closed THEN hist
                      ELSE [hist EXCEPT !.nextId = @ + 1,
                                        !.puts = @ \cup {[id |-> req.id, url |-> req.url,
                                                          depth |-> req.depth,
                                                          from |-> w.resp.depth]}]
    /\ AnGoOn(analyzerPool, w, [w EXCEPT !.pc = "data", !.i = @ + 1])
    /\ UNCHANGED <<chanman, stopSign, dlpool, sups, dlWorkers, minor, crashed>>
    /\ UNCHANGED poolVars

\* ---- the item stage, openItemPipeline() ----
\* line 387: the channel expression of the range loop, evaluated once
ItemSupGet ==
    /\ Alive
    /\ sups.item = "get"
    /\ checkStatus(chanman)
    /\ sups' = [sups EXCEPT !.item = "recv"]
    /\ UNCHANGED <<sched, chanman, stopSign, dlpool, analyzerPool, reqCache,
                   dlWorkers, anWorkers, minor, crashed, hist>>
    /\ UNCHANGED poolVars

\* line 387 when Stop closed the channels before the supervisor first ran
ItemSupPanic ==
    /\ Alive
    /\ sups.item = "get"
    /\ ~checkStatus(chanman)
    /\ Panic("item supervisor: ItemChan")

\* lines 387-388: the receive; the closed and drained channel ends the loop
ItemSupRecv ==
    /\ Alive
    /\ sups.item = "recv"
    /\ IF chanman.itemCh > 0
       THEN /\ chanman' = [chanman EXCEPT !.itemCh = @ - 1]
            /\ minor' = [minor EXCEPT !.itemSend = @ + 1]
            /\ sups' = sups
       ELSE /\ ChannelsClosed(chanman)
            /\ sups' = [sups EXCEPT !.item = "done", !.wg = @ - 1]
            /\ UNCHANGED <<chanman, minor>>
    /\ UNCHANGED <<sched, stopSign, dlpool, analyzerPool, reqCache,
                   dlWorkers, anWorkers, crashed, hist>>
    /\ UNCHANGED poolVars

\* lines 393-401: the goroutine of one item: itemPipeline.Send(item) with
\* fail-fast set returns no error, or one, which goes to sendError(err, code)
ItemSend(failed) ==
    /\ Alive
    /\ minor.itemSend > 0
    /\ stopSign' = IF failed THEN SendErrorSign(ITEMPIPELINE_CODE) ELSE stopSign
    /\ minor' = [minor EXCEPT !.itemSend = @ - 1,
                              !.errSend = @ + (IF failed THEN SendErrorSpawns ELSE 0)]
    /\ UNCHANGED <<sched, chanman, dlpool, analyzerPool, reqCache, sups,
                   dlWorkers, anWorkers, crashed, hist>>
    /\ UNCHANGED poolVars

\* ---- Stop() ----
\* A Stop that goes on whatever the running state is.
StopProceedsAlways(running) == TRUE

\* line 430: atomic.LoadUint32(&sched.running) != 1 returns false
StopProceeds(running) == running = 1

\* lines 430-433: the guard and stopSign.Sign()
StopBegin ==
    /\ Alive
    /\ sups.stop = "idle"
    /\ sups.stops < MaxStops
    /\ IF StopProceeds(sched.running)
       THEN /\ stopSign' = Sign(stopSign)
            /\ sups' = [sups EXCEPT !.stop = "close"]
            /\ hist' = hist
       ELSE /\ stopSign' = stopSign
            /\ sups' = [sups EXCEPT !.stops = @ + 1]
            /\ hist' = [hist EXCEPT !.stopRet = Append(@, FALSE)]
    /\ UNCHANGED <<sched, chanman, dlpool, analyzerPool, reqCache,
                   dlWorkers, anWorkers, minor, crashed>>
    /\ UNCHANGED poolVars

\* line 434: chanman.Close()
StopClose ==
    /\ Alive
    /\ sups.stop = "close"
    /\ chanman' = Close(chanman)
    /\ sups' = [sups EXCEPT !.stop = "fin"]
    /\ UNCHANGED <<sched, stopSign, dlpool, analyzerPool, reqCache,
                   dlWorkers, anWorkers, minor, crashed, hist>>
    /\ UNCHANGED poolVars

\* lines 435-437: reqCache.close(), the running state, return true
StopFinish ==
    /\ Alive
    /\ sups.stop = "fin"
    /\ reqCache' = CacheClose(reqCache)
    /\ sched' = [sched EXCEPT !.running = 2]
    /\ sups' = [sups EXCEPT !.stop = "idle", !.stops = @ + 1]
    /\ hist' = [hist EXCEPT !.stopRet = Append(@, TRUE)]
    /\ UNCHANGED <<chanman, stopSign, dlpool, analyzerPool,
                   dlWorkers, anWorkers, minor, crashed>>
    /\ UNCHANGED poolVars

\* Running()
Running == sched.running = 1

Next ==
    \/ \E cd \in CrawlDepths, parser \in ParserModes : Start(cd, parser)
    \/ StartReturn
    \/ FeederCheck
    \/ FeederRemainder
    \/ FeederRemainderPanic
    \/ FeederDrain
    \/ FeederSendPanic
    \/ FeederSendClosed
    \/ DlSupRecv
    \/ DlSupClosed
    \/ DlSupPanic
    \/ \E w \in dlWorkers, fails \in BOOLEAN : DlTake(w, fails)
    \/ \E w \in dlWorkers : DlSendRespCheck(w)
    \/ \E w \in dlWorkers : DlSendResp(w)
    \/ \E w \in dlWorkers : DlSendRespPanic(w)
    \/ \E w \in dlWorkers : DlSendRespClosed(w)
    \/ \E w \in dlWorkers : DlSendError(w)
    \/ ErrSenderSend
    \/ ErrSenderPanic
    \/ ErrSenderClosed
    \/ ErrorChanRead
    \/ AnSupRecv
    \/ AnSupClosed
    \/ AnSupPanic
    \/ \E w \in anWorkers : AnTake(w)
    \/ \E w \in anWorkers : AnSendError(w)
    \/ \E w \in anWorkers : AnSendItemCheck(w)
    \/ \E w \in anWorkers : AnSendItem(w)
    \/ \E w \in anWorkers : AnSendItemPanic(w)
    \/ \E w \in anWorkers : AnSendItemClosed(w)
    \/ \E w \in anWorkers : AnSaveReqCheck(w)
    \/ \E w \in anWorkers : AnSaveReqPut(w)
    \/ ItemSupGet
    \/ ItemSupPanic
    \/ ItemSupRecv
    \/ \E failed \in BOOLEAN : ItemSend(failed)
    \/ StopBegin
    \/ StopClose
    \/ StopFinish

Spec == Init /\ [][Next]_vars

\* ------------------------------------------------------------------------
\* Properties of a run
\* ------------------------------------------------------------------------
\* the requests saveReqToCache put into the cache (the seed's entry has
\* from = -1)
Admitted == {p \in hist.puts : p.from >= 0}

\* C1: URL uniqueness.  Within one run at most one Request with a given URL
\* is ever put into the request cache, the seed put by Start and the
\* requests admitted by saveReqToCache taken together.
C1_UrlUniqueness ==
    \A p, q \in hist.puts : p.url = q.url => p.id = q.id

\* C2: depth monotone.  Every Request the analyzer stage produced from a
\* Response of depth d and admitted to the request cache has depth d + 1.
C2_DepthMonotone ==
    \A p \in Admitted : p.depth = p.from + 1

\* C3: crawl-depth bound on fetches.  With crawl depth k no page more than
\* k link hops from the seed is handed to a downloader, whatever depth the
\* parser wrote into the Requests; with k = 0 only the seed is fetched.
C3_FetchWithinCrawlDepth ==
    \A r \in hist.fetched : HopDistance[r.url] <= sched.crawlDepth

\* C4: depth bound on admitted requests.  Every Request ever put into the
\* request cache, the seed included, has a depth field <= the crawl depth.
C4_AdmittedDepthBound ==
    \A p \in hist.puts : p.depth <= sched.crawlDepth

\* a request with depth = crawl depth was admitted, and an analyze worker
\* has gone past a request deeper than the crawl depth
C4_Witness ==
    /\ \E p \in Admitted : p.depth = sched.crawlDepth
    /\ \E w \in anWorkers :
          /\ w.pc = "data" /\ w.i > 1
          /\ DataOf(w)[w.i - 1].kind = "req"
          /\ DataOf(w)[w.i - 1].depth > sched.crawlDepth
          /\ DataOf(w)[w.i - 1].url \notin {p.url : p \in Admitted}

\* C5: domain confinement.  Every Request saveReqToCache put into the
\* request cache has a host whose primary domain is found and equals the
\* primary domain of the seed's host.
C5_DomainConfinement ==
    \A p \in Admitted :
        /\ PrimaryDomainOf[UrlHost[p.url]].ok
        /\ PrimaryDomainOf[UrlHost[p.url]].pd = PrimaryDomainOf[UrlHost[SeedUrl]].pd

\* a request to another host of the seed's domain was admitted, and an
\* analyze worker has gone past a link to a foreign domain and a link to a
\* host with no primary domain, which were not
C5_Witness ==
    /\ \E p \in Admitted : UrlHost[p.url] # UrlHost[SeedUrl]
    /\ \E w \in anWorkers :
          /\ w.pc = "data"
          /\ \E i \in 1..(w.i - 1) :
                /\ DataOf(w)[i].kind = "req"
                /\ PrimaryDomainOf[UrlHost[DataOf(w)[i].url]].ok
                /\ PrimaryDomainOf[UrlHost[DataOf(w)[i].url]].pd # sched.primaryDomain
                /\ DataOf(w)[i].url \notin {p.url : p \in Admitted}
          /\ \E i \in 1..(w.i - 1) :
                /\ DataOf(w)[i].kind = "req"
                /\ ~PrimaryDomainOf[UrlHost[DataOf(w)[i].url]].ok
                /\ DataOf(w)[i].url \notin {p.url : p \in Admitted}

StopReturnedTrue == \E i \in 1..Len(hist.stopRet) : hist.stopRet[i]

\* C8: Stop terminates the run.  When Stop() has returned true Running() is
\* false, and when no task can take a step any more the four supervisors
\* have exited and Start has returned.
C8_StopTerminatesRun ==
    StopReturnedTrue =>
        /\ ~Running
        /\ ~(ENABLED Next) =>
              /\ sups.dl = "done" /\ sups.an = "done"
              /\ sups.item = "done" /\ sups.feeder = "done"
              /\ sups.start = "returned"

\* C9: no send after close.  No task ever sends on a channel that Stop has
\* closed.
C9_NoSendAfterClose ==
    /\ ~hist.closedSend
    /\ crashed \notin {"feeder: send on closed channel",
                       "error sender: send on closed channel"}

\* C10: Stop is idempotent.  A Stop() on a scheduler that is not running,
\* so every Stop() after one that returned true, returns false and changes
\* neither the running state, the stop sign, the channel manager nor the
\* request cache.
C10_StopIdempotent ==
    /\ [](\A i, j \in 1..Len(hist.stopRet) :
             (i < j /\ hist.stopRet[i]) => ~hist.stopRet[j])
    /\ [][(StopBegin /\ ~Running) =>
            /\ hist'.stopRet = Append(hist.stopRet, FALSE)
            /\ sups'.stop = "idle"
            /\ UNCHANGED <<sched, stopSign, chanman, reqCache>>]_vars

\* a Stop() returned true and the next Stop() returned false; a Stop()
\* before Start returned false
C10_Witness == hist.stopRet = <<TRUE, FALSE>>

\* ------------------------------------------------------------------------
\* The calls of the Scheduler interface on their own: Start with any
\* arguments, Stop and ErrorChan, called from the client's goroutines.  The
\* supervisors that a Start spawns are counted (sups.wg) and not run here:
\* the calls below read nothing that the supervisors write.
\* sched.made holds the fields of myScheduler that are not nil.
\* ------------------------------------------------------------------------
MaxStarts == 2

MaxErrorChans == 1

NilSeed == 0 - 1

\* The arguments of Start.  chan, pool: channelArgs.Check(), poolBaseArgs
\* .Check() find no error; gen: httpClientGenerator is not nil; parsers,
\* procs: the list is fine, nil, or holds a nil element; seed: a URL of the
\* site or nil.
ValidArgs(depth) ==
    [chan |-> TRUE, pool |-> TRUE, gen |-> TRUE, parsers |-> "ok",
     procs |-> "ok", seed |-> SeedUrl, depth |-> depth]

\* valid arguments and the arguments with one defect
StartArgs ==
    UNION {LET v == ValidArgs(d) IN
           {v, [v EXCEPT !.chan = FALSE], [v EXCEPT !.pool = FALSE],
            [v EXCEPT !.gen = FALSE], [v EXCEPT !.parsers = "nil"],
            [v EXCEPT !.parsers = "nilElem"], [v EXCEPT !.procs = "nil"],
            [v EXCEPT !.procs = "nilElem"], [v EXCEPT !.seed = NilSeed],
            [v EXCEPT !.seed = 3]} : d \in CrawlDepths}

\* The configuration errors of section 7 of the specification
ConfigurationError(a) ==
    \/ ~a.chan \/ ~a.pool \/ ~a.gen
    \/ a.parsers # "ok" \/ a.procs # "ok"
    \/ a.seed = NilSeed
    \/ (a.seed # NilSeed /\ ~PrimaryDomainOf[UrlHost[a.seed]].ok)

\* Start, lines 100-156: the return that the arguments lead to, numbered in
\* the order of the code; 7 is wg.Wait().  respParsers is passed to
\* activateAnalyzers and never looked at.
StartStage(a) ==
    CASE ~a.chan -> 1
      [] ~a.pool -> 2
      [] ~a.gen -> 3
      [] a.procs # "ok" -> 4
      [] a.seed = NilSeed -> 5
      [] ~PrimaryDomainOf[UrlHost[a.seed]].ok -> 6
      [] OTHER -> 7

StartError(stage) ==
    CASE stage = 1 -> "channelArgs"
      [] stage = 2 -> "poolBaseArgs"
      [] stage = 3 -> "httpClientGenerator"
      [] stage = 4 -> "itemProcessors"
      [] stage = 5 -> "firstHttpReq"
      [] stage = 6 -> "primaryDomain"
      [] OTHER -> "waiting"

\* A guard that lets every Start through.
StartRefusedNever(running) == FALSE

\* lines 96-98: "The scheduler has been started"
StartRefused(running) == running = 1

ApiInit ==
    /\ pool = NewPool(NumEntities)
    /\ callers = << >>
    /\ takenSince = << >>
    /\ sched = [running |-> 0, crawlDepth |-> 0, primaryDomain |-> << >>,
                urlMap |-> {}, parser |-> "ok", made |-> {}]
    /\ chanman = [status |-> CHANNEL_MANAGER_STATUS_UNINITIALIZED,
                  reqCh |-> << >>, respCh |-> << >>, itemCh |-> 0, errorCh |-> 0]
    /\ stopSign = NewStopSign
    /\ dlpool = NewPool(0)
    /\ analyzerPool = NewPool(0)
    /\ reqCache = newRequestCache
    /\ sups = [wg |-> 0, waiting |-> 0, starts |-> 0, stop |-> "idle",
               stops |-> 0, errorChan |-> "idle", errorChans |-> 0]
    /\ dlWorkers = {}
    /\ anWorkers = {}
    /\ minor = [itemSend |-> 0, errSend |-> 0]
    /\ crashed = "none"
    /\ hist = [nextId |-> 1, puts |-> {}, fetched |-> {}, stopRet |-> << >>,
               closedSend |-> FALSE,
               start |-> [args |-> ValidArgs(0), ret |-> "none", refused |-> FALSE,
                         spawned |-> FALSE],
               errorChan |-> "none"]

\* Start(channelArgs, poolBaseArgs, crawlDepth, httpClientGenerator,
\* respParsers, itemProcessors, firstHttpReq), lines 96-157: from the call to
\* its return or to wg.Wait()
ApiStart(a) ==
    /\ Alive
    /\ sups.starts < MaxStarts
    /\ IF StartRefused(sched.running)
       THEN /\ hist' = [hist EXCEPT !.start = [args |-> a, ret |-> "started",
                                               refused |-> TRUE,
                                               spawned |-> FALSE]]
            /\ sups' = [sups EXCEPT !.starts = @ + 1]
            /\ UNCHANGED <<sched, chanman, stopSign, dlpool, analyzerPool, reqCache>>
       ELSE LET stage == StartStage(a)
                seedReq == [id |-> hist.nextId, url |-> a.seed, depth |-> 0]
            IN
            /\ sched' =
                 [running |-> 1,
                  crawlDepth |-> IF stage >= 3 THEN a.depth ELSE sched.crawlDepth,
                  primaryDomain |-> IF stage = 7
                                    THEN PrimaryDomainOf[UrlHost[a.seed]].pd
                                    ELSE sched.primaryDomain,
                  urlMap |-> IF stage >= 5 THEN {} ELSE sched.urlMap,
                  parser |-> IF stage >= 5 THEN a.parsers ELSE sched.parser,
                  made |-> sched.made
                           \cup (IF stage >= 3 THEN {"chanman"} ELSE {})
                           \cup (IF stage >= 4 THEN {"dlpool", "analyzerPool"} ELSE {})
                           \cup (IF stage >= 5
                                 THEN {"itemPipeline", "stopSign", "urlMap", "reqCache"}
                                 ELSE {})]
            /\ chanman' = IF stage >= 3 THEN NewChannelManager ELSE chanman
            /\ dlpool' = IF stage >= 4 THEN NewPool(PageDownloaderPoolSize) ELSE dlpool
            /\ analyzerPool' = IF stage >= 4 THEN NewPool(AnalyzerPoolSize)
                               ELSE analyzerPool
            /\ stopSign' = IF stage >= 5 THEN NewStopSign ELSE stopSign
            /\ reqCache' = CASE stage = 7 -> CachePut(newRequestCache, seedReq)
                             [] stage >= 5 -> newRequestCache
                             [] OTHER -> reqCache
            /\ sups' = [sups EXCEPT !.starts = @ + 1,
                                    !.wg = IF stage >= 5 THEN @ + 4 ELSE @,
                                    !.waiting = IF stage = 7 THEN @ + 1 ELSE @]
            /\ hist' = [hist EXCEPT
                          !.start = [args |-> a, ret |-> StartError(stage),
                                     refused |-> FALSE,
                                     spawned |-> stage >= 5],
                          !.nextId = IF stage = 7 THEN @ + 1 ELSE @,
                          !.puts = IF stage = 7
                                   THEN @ \cup {[id |-> hist.nextId, url |-> a.seed,
                                                 depth |-> 0, from |-> -1]}
                                   ELSE @]
    /\ UNCHANGED <<dlWorkers, anWorkers, minor, crashed>>
    /\ UNCHANGED poolVars

\* Stop(), line 430-433, on a scheduler whose stopSign may be nil: the call
\* of Sign() on the nil interface is a run-time panic in the caller
ApiStopBegin ==
    /\ IF StopProceeds(sched.running) /\ "stopSign" \notin sched.made
       THEN /\ Alive
            /\ sups.stop = "idle"
            /\ sups.stops < MaxStops
            /\ crashed' = "Stop: nil stopSign"
            /\ UNCHANGED <<sched, chanman, stopSign, dlpool, analyzerPool,
                           reqCache, sups, dlWorkers, anWorkers, minor, hist>>
            /\ UNCHANGED poolVars
       ELSE StopBegin

\* ErrorChan(), line 445: sched.chanman.Status() on a chanman that may be
\* nil, and the comparison with INITIALIZED
ApiErrorChanStatus ==
    /\ Alive
    /\ sups.errorChan = "idle"
    /\ sups.errorChans < MaxErrorChans
    /\ IF "chanman" \notin sched.made
       THEN /\ crashed' = "ErrorChan: nil chanman"
            /\ UNCHANGED <<sups, hist>>
       ELSE /\ crashed' = crashed
            /\ IF chanman.status # CHANNEL_MANAGER_STATUS_INITIALIZED
               THEN /\ sups' = [sups EXCEPT !.errorChans = @ + 1]
                    /\ hist' = [hist EXCEPT !.errorChan = "nil"]
               ELSE /\ sups' = [sups EXCEPT !.errorChan = "get"]
                    /\ hist' = hist
    /\ UNCHANGED <<sched, chanman, stopSign, dlpool, analyzerPool, reqCache,
                   dlWorkers, anWorkers, minor>>
    /\ UNCHANGED poolVars

\* ErrorChan(), line 448: getErrorChan() (lines 191-197) panics on the error
\* of chanman.ErrorChan()
ApiErrorChanGet ==
    /\ Alive
    /\ sups.errorChan = "get"
    /\ IF checkStatus(chanman)
       THEN /\ crashed' = crashed
            /\ sups' = [sups EXCEPT !.errorChan = "idle", !.errorChans = @ + 1]
            /\ hist' = [hist EXCEPT !.errorChan = "chan"]
       ELSE /\ crashed' = "ErrorChan: getErrorChan"
            /\ UNCHANGED <<sups, hist>>
    /\ UNCHANGED <<sched, chanman, stopSign, dlpool, analyzerPool, reqCache,
                   dlWorkers, anWorkers, minor>>
    /\ UNCHANGED poolVars

ApiNext ==
    \/ \E a \in StartArgs : ApiStart(a)
    \/ ApiStopBegin
    \/ StopClose
    \/ StopFinish
    \/ ApiErrorChanStatus
    \/ ApiErrorChanGet

ApiSpec == ApiInit /\ [][ApiNext]_vars

\* C11: a Start called while Running() is true returns the error "The
\* scheduler has been started" and leaves the channel manager, the pools,
\* the stop sign, the request cache, the seen-URL set, the crawl depth and
\* the running state as they were.
C11_StartWhileRunningRefused ==
    [][\A a \in StartArgs :
         (ApiStart(a) /\ Running) =>
            /\ hist'.start.ret = "started"
            /\ UNCHANGED <<sched, chanman, dlpool, analyzerPool, stopSign,
                           reqCache>>]_vars

\* a Start with another crawl depth was refused while a Start with valid
\* arguments waits in wg.Wait()
C11_Witness ==
    /\ hist.start.refused
    /\ sched.running = 1
    /\ sups.waiting = 1
    /\ hist.start.args.depth # sched.crawlDepth

\* C12: a Start that is not refused as already started and whose arguments
\* hold a configuration error (channel or pool arguments, nil HTTP-client
\* factory, nil parser list or element, nil item-processor list or element,
\* nil seed, seed host without a primary domain) returns an error: it does
\* not reach wg.Wait() and it has spawned no supervisor.
C12_ConfigErrorsSynchronous ==
    (/\ hist.start.ret \notin {"none", "started"}
     /\ ConfigurationError(hist.start.args))
        => (hist.start.ret # "waiting" /\ ~hist.start.spawned)

\* C15: ErrorChan() does not fail: when the channel manager is not
\* INITIALIZED (a scheduler never started, a Start that failed before the
\* channel manager was made, after Stop or while Stop runs) the call
\* returns nil, and no call ends in a panic.
C15_ErrorChanNeverFails ==
    crashed \notin {"ErrorChan: nil chanman", "ErrorChan: getErrorChan"}

\* The entities of a pool and the workers that hold them: an entity marked
\* true in idContainer is once in the FIFO and with no worker, an entity
\* marked false is not in the FIFO and with one worker.
HeldBy(workers, e) == {w \in workers : w.ent = e}

PoolMatchesWorkers(p, workers) ==
    \A e \in 1..Total(p) :
        IF p.idContainer[e]
        THEN Occurrences(p.container, e) = 1 /\ HeldBy(workers, e) = {}
        ELSE Occurrences(p.container, e) = 0 /\ Cardinality(HeldBy(workers, e)) = 1

\* C13: every download worker and every analyze worker that took an entity
\* gives that entity back once before it ends, whether it ends normally, on
\* a send dropped for the stop sign or on a recovered panic: in every state
\* the entities out of each pool are those held by the live workers, one
\* worker each, and a panic recovered in a worker ends no other goroutine.
C13_PoolReleaseOnEveryExit ==
    /\ [](PoolMatchesWorkers(dlpool, dlWorkers)
            /\ PoolMatchesWorkers(analyzerPool, anWorkers))
    /\ [][\A w \in dlWorkers :
            (DlSendRespPanic(w) \/ DlSendRespClosed(w)) =>
                (crashed' = "none" /\ dlpool'.idContainer[w.ent]
                 /\ UNCHANGED <<sups, anWorkers>>)]_vars
    /\ [][\A w \in anWorkers :
            (AnSendItemPanic(w) \/ AnSendItemClosed(w)) =>
                (crashed' = "none" /\ analyzerPool'.idContainer[w.ent]
                 /\ UNCHANGED <<sups, dlWorkers>>)]_vars

\* the channel manager is closed while a download worker that holds a
\* downloader is about to send its response and an analyze worker that holds
\* an analyzer is about to send an item: both panic and recover
C13_Witness ==
    /\ ~checkStatus(chanman)
    /\ \E w \in dlWorkers : w.pc = "resp_send" /\ ~dlpool.idContainer[w.ent]
    /\ \E w \in anWorkers : w.pc = "item_send" /\ ~analyzerPool.idContainer[w.ent]

\* ------------------------------------------------------------------------
\* The processor chain of myItemPipeline.Send (helper.go:176-188) on its
\* own.  An item processor is taken by what one call of it returns: item
\* (the returned item is not nil) and err (the returned error is not nil).
\* The item that processor i returns is written i, the item Send was given
\* 0, and the error of processor i is written i.
\* ------------------------------------------------------------------------
MaxProcessors == 3

ProcessItem == [item : BOOLEAN, err : BOOLEAN]

ProcessorLists == UNION {[1..n -> ProcessItem] : n \in 0..MaxProcessors}

\* A chain that no error stops.
ChainBreaksNever(failFast, err) == FALSE

\* lines 180-183: break
ChainBreaks(failFast, err) == err /\ failFast

\* lines 176-188: the loop from processor i on, with currentItem, the
\* errors so far, and calls, the record of the processors invoked and the
\* item each was given
RECURSIVE ChainFrom(_, _, _, _, _, _)
ChainFrom(itemProcessors, failFast, i, currentItem, errs, calls) ==
    IF i > Len(itemProcessors)
    THEN [errs |-> errs, calls |-> calls]
    ELSE LET r == itemProcessors[i]
             errs2 == IF r.err THEN Append(errs, i) ELSE errs
             calls2 == Append(calls, [proc |-> i, item |-> currentItem])
         IN  IF ChainBreaks(failFast, r.err)
             THEN [errs |-> errs2, calls |-> calls2]
             ELSE ChainFrom(itemProcessors, failFast, i + 1,
                            IF r.item THEN i ELSE currentItem, errs2, calls2)

\* Send(item) for an item that is not nil: what it returns and whom it called
SendChain(itemProcessors, failFast) ==
    ChainFrom(itemProcessors, failFast, 1, 0, << >>, << >>)

ChainInit ==
    /\ pool = NewPool(NumEntities)
    /\ callers = << >>
    /\ takenSince = << >>
    /\ \E ps \in ProcessorLists, ff \in BOOLEAN :
          sched = [itemProcessors |-> ps, failFast |-> ff]
    /\ chanman = [status |-> CHANNEL_MANAGER_STATUS_UNINITIALIZED]
    /\ stopSign = NewStopSign
    /\ dlpool = << >>
    /\ analyzerPool = << >>
    /\ reqCache = << >>
    /\ sups = << >>
    /\ dlWorkers = {}
    /\ anWorkers = {}
    /\ minor = << >>
    /\ crashed = "none"
    /\ hist = [called |-> FALSE, errs |-> << >>, calls |-> << >>]

\* errs := ip.Send(item)
ChainSend ==
    /\ ~hist.called
    /\ hist' = [called |-> TRUE,
                 errs |-> SendChain(sched.itemProcessors, sched.failFast).errs,
                 calls |-> SendChain(sched.itemProcessors, sched.failFast).calls]
    /\ UNCHANGED <<sched, chanman, stopSign, dlpool, analyzerPool, reqCache,
                   sups, dlWorkers, anWorkers, minor, crashed>>
    /\ UNCHANGED poolVars

ChainNext == ChainSend

ChainSpec == ChainInit /\ [][ChainNext]_vars

\* the processors that return an error, and the first of them
Failing(ps) == {i \in 1..Len(ps) : ps[i].err}

FirstFailing(ps) == CHOOSE i \in Failing(ps) : \A j \in Failing(ps) : i <= j

\* the most recent item not nil that a processor before i returned, or the
\* item Send was given
ItemBefore(ps, i) ==
    LET given == {j \in 1..(i - 1) : ps[j].item} \cup {0}
    IN  CHOOSE j \in given : \A k \in given : k <= j

\* C21: Send of an item that is not nil calls the processors in list
\* order, each with the most recent item not nil returned before it (or the
\* item given); with failFast set the processors are called up to the first
\* that returns an error and Send returns that one error; with failFast
\* unset every processor is called and Send returns all the errors in order.
C21_ItemPipelineChain ==
    hist.called =>
        LET ps == sched.itemProcessors
            stopped == sched.failFast /\ Failing(ps) # {}
            last == IF stopped THEN FirstFailing(ps) ELSE Len(ps)
        IN  /\ Len(hist.calls) = last
            /\ \A i \in 1..last :
                  /\ hist.calls[i].proc = i
                  /\ hist.calls[i].item = ItemBefore(ps, i)
            /\ IF stopped THEN hist.errs = <<FirstFailing(ps)>>
               ELSE /\ Range(hist.errs) = Failing(ps)
                    /\ Len(hist.errs) = Cardinality(Failing(ps))
                    /\ \A a, b \in 1..Len(hist.errs) :
                          a < b => hist.errs[a] < hist.errs[b]

\* with failFast set, three processors: the first returns an item, the
\* second an error, and Send has returned
C21_Witness ==
    /\ hist.called
    /\ sched.failFast
    /\ Len(sched.itemProcessors) = 3
    /\ sched.itemProcessors[1].item /\ ~sched.itemProcessors[1].err
    /\ sched.itemProcessors[2].err
    /\ hist.errs = <<2>>
    /\ hist.calls[2].item = 1

\* ------------------------------------------------------------------------
\* The item pipeline (scheduler/helper.go) and Idle(): NumCallers goroutines
\* call Send, as the item supervisor's goroutines do, while a download
\* worker and an analyze worker take and return their entities.
\* The counters are uint64.  A value is kept by its representative in
\* -2^63 .. 2^63-1, which is zero exactly when the uint64 is zero and adds
\* as the uint64 does as long as fewer than 2^62 calls were made.
\* ------------------------------------------------------------------------
MaxSends == 3

\* ^x on uint64: 2^64 - 1 - x
NotUint64(x) == 0 - x - 1

\* atomic.AddUint64(addr, delta)
AddUint64(value, delta) == value + delta

\* line 168: the delta of the deferred AddUint64, ^uint64(1)
DeferredDelta == NotUint64(1)

NewItempipeline ==
    [processingNumber |-> 0, sent |-> 0, accepted |-> 0, processed |-> 0,
     failFast |-> FALSE]

ProcessingNumber(ip) == ip.processingNumber

\* Idle(), scheduler.go:451-459
Idle ==
    /\ used(dlpool) = 0
    /\ used(analyzerPool) = 0
    /\ ProcessingNumber(sched.itemPipeline) = 0

ItemInit ==
    /\ pool = NewPool(NumEntities)
    /\ callers = [c \in Callers |-> [pc |-> "idle", calls |-> 0, errs |-> 0]]
    /\ takenSince = << >>
    /\ \E failFast \in BOOLEAN :
          sched = [running |-> 1,
                   itemPipeline |-> [NewItempipeline EXCEPT !.failFast = failFast]]
    /\ chanman = NewChannelManager
    /\ stopSign = NewStopSign
    /\ dlpool = NewPool(PageDownloaderPoolSize)
    /\ analyzerPool = NewPool(AnalyzerPoolSize)
    /\ reqCache = newRequestCache
    /\ sups = << >>
    /\ dlWorkers = {}
    /\ anWorkers = {}
    /\ minor = [itemSend |-> 0, errSend |-> 0]
    /\ crashed = "none"
    /\ hist = [sends |-> 0, accepts |-> 0]

itemFixed ==
    <<pool, takenSince, chanman, stopSign, reqCache, sups, minor, crashed>>

\* An item is accepted whether it is nil or not.
AcceptsAlways(isNil) == TRUE

\* lines 171-174: a nil item is not accepted
Accepts(isNil) == ~isNil

\* Send, lines 167-174: the counters on entry, the deferred call registered
\* with its argument, and the return with one error for a nil item
SendEnter(c, isNil) ==
    /\ callers[c].pc = "idle"
    /\ hist.sends < MaxSends
    /\ sched' = [sched EXCEPT
                   !.itemPipeline.processingNumber = AddUint64(@, 1),
                   !.itemPipeline.sent = AddUint64(@, 1)]
    /\ callers' = [callers EXCEPT
                     ![c].pc = IF Accepts(isNil) THEN "accept" ELSE "return",
                     ![c].errs = IF Accepts(isNil) THEN 0 ELSE 1]
    /\ hist' = [hist EXCEPT !.sends = @ + 1,
                            !.accepts = IF isNil THEN @ ELSE @ + 1]
    /\ UNCHANGED <<dlpool, analyzerPool, dlWorkers, anWorkers>>
    /\ UNCHANGED itemFixed

\* Send, line 175: accepted
SendAccept(c) ==
    /\ callers[c].pc = "accept"
    /\ sched' = [sched EXCEPT !.itemPipeline.accepted = AddUint64(@, 1)]
    /\ callers' = [callers EXCEPT ![c].pc = "process"]
    /\ UNCHANGED <<dlpool, analyzerPool, dlWorkers, anWorkers, hist>>
    /\ UNCHANGED itemFixed

\* Send, lines 176-190: the item processors, whatever each returns for this
\* item, and processed
SendProcess(c, itemProcessors) ==
    /\ callers[c].pc = "process"
    /\ sched' = [sched EXCEPT !.itemPipeline.processed = AddUint64(@, 1)]
    /\ callers' = [callers EXCEPT
                     ![c].pc = "return",
                     ![c].errs = Len(SendChain(itemProcessors,
                                               sched.itemPipeline.failFast).errs)]
    /\ UNCHANGED <<dlpool, analyzerPool, dlWorkers, anWorkers, hist>>
    /\ UNCHANGED itemFixed

\* Send returns: the deferred atomic.AddUint64(&ip.processingNumber, ^uint64(1))
SendReturn(c) ==
    /\ callers[c].pc = "return"
    /\ sched' = [sched EXCEPT
                   !.itemPipeline.processingNumber = AddUint64(@, DeferredDelta)]
    /\ callers' = [callers EXCEPT ![c].pc = "idle", ![c].calls = @ + 1]
    /\ UNCHANGED <<dlpool, analyzerPool, dlWorkers, anWorkers, hist>>
    /\ UNCHANGED itemFixed

\* a download worker between Take and Return (scheduler.go:214-226)
ItemDlTake ==
    /\ PoolCanTake(dlpool)
    /\ dlpool' = PoolTake(dlpool)
    /\ dlWorkers' = dlWorkers \cup {[ent |-> PoolTaken(dlpool)]}
    /\ UNCHANGED <<sched, callers, analyzerPool, anWorkers, hist>>
    /\ UNCHANGED itemFixed

ItemDlReturn(w) ==
    /\ dlpool' = PoolReturn(dlpool, w.ent)
    /\ dlWorkers' = dlWorkers \ {w}
    /\ UNCHANGED <<sched, callers, analyzerPool, anWorkers, hist>>
    /\ UNCHANGED itemFixed

\* an analyze worker between Take and Return (scheduler.go:293-305)
ItemAnTake ==
    /\ PoolCanTake(analyzerPool)
    /\ analyzerPool' = PoolTake(analyzerPool)
    /\ anWorkers' = anWorkers \cup {[ent |-> PoolTaken(analyzerPool)]}
    /\ UNCHANGED <<sched, callers, dlpool, dlWorkers, hist>>
    /\ UNCHANGED itemFixed

ItemAnReturn(w) ==
    /\ analyzerPool' = PoolReturn(analyzerPool, w.ent)
    /\ anWorkers' = anWorkers \ {w}
    /\ UNCHANGED <<sched, callers, dlpool, dlWorkers, hist>>
    /\ UNCHANGED itemFixed

ItemNext ==
    \/ \E c \in Callers, isNil \in BOOLEAN : SendEnter(c, isNil)
    \/ \E c \in Callers : SendAccept(c)
    \/ \E c \in Callers, ps \in ProcessorLists : SendProcess(c, ps)
    \/ \E c \in Callers : SendReturn(c)
    \/ ItemDlTake
    \/ \E w \in dlWorkers : ItemDlReturn(w)
    \/ ItemAnTake
    \/ \E w \in anWorkers : ItemAnReturn(w)

ItemSpec == ItemInit /\ [][ItemNext]_vars

\* the Send calls that are executing
SendsExecuting == Cardinality({c \in Callers : callers[c].pc # "idle"})

\* C14: processingNumber is the number of Send calls that are executing,
\* and Idle() is true exactly when no downloader is out of its pool, no
\* analyzer is out of its pool and no Send is executing.
C14_ProcessingNumberInFlight ==
    /\ ProcessingNumber(sched.itemPipeline) = SendsExecuting
    /\ Idle <=> (dlWorkers = {} /\ anWorkers = {} /\ SendsExecuting = 0)

\* DealCount(code) and DealTotal() of the stop sign (part_003, 74-88), for
\* what they return
DealCount(ss, code) == ss.dealCountMap[code]

RECURSIVE SumCounts(_, _)
SumCounts(m, codes) ==
    IF codes = {} THEN 0
    ELSE LET c == CHOOSE x \in codes : TRUE
         IN  m[c] + SumCounts(m, codes \ {c})

DealTotal(ss) == SumCounts(ss.dealCountMap, DOMAIN ss.dealCountMap)

\* C16: after a Stop() that returned true the feeder sees the signed stop
\* sign, calls Deal("scheduler") and exits: once no task can take a step any
\* more the feeder has exited and DealCount("scheduler") and DealTotal() are
\* at least 1; and the counts, once at least 1, stay so while the process
\* runs (nothing resets the stop sign before the next Start).
C16_FeederAcknowledgesStop ==
    /\ (StopReturnedTrue /\ ~(ENABLED Next)) =>
            /\ sups.feeder = "done"
            /\ DealCount(stopSign, SCHEDULER_CODE) >= 1
            /\ DealTotal(stopSign) >= 1
    /\ (Alive /\ sups.feeder = "done") => DealCount(stopSign, SCHEDULER_CODE) >= 1

\* ------------------------------------------------------------------------
\* getPrimaryDomain (scheduler/helper.go) on its own: one call on a host
\* ------------------------------------------------------------------------
MaxLabels == 3

PdLabels == {"a", "example", "com", "co", "uk", "localhost", "10", "1"}

\* the hosts "www.example.com", "a.b.example.co.uk", "example.tv",
\* "10.0.0.1", "localhost"
ExampleHosts ==
    {<<"www", "example", "com">>, <<"a", "b", "example", "co", "uk">>,
     <<"example", "tv">>, <<"10", "0", "0", "1">>, <<"localhost">>}

PdHosts == ExampleHosts \cup UNION {[1..n -> PdLabels] : n \in 1..MaxLabels}

PdInit ==
    /\ pool = NewPool(NumEntities)
    /\ callers = << >>
    /\ takenSince = << >>
    /\ \E h \in PdHosts : sched = [host |-> h]
    /\ chanman = [status |-> CHANNEL_MANAGER_STATUS_UNINITIALIZED]
    /\ stopSign = NewStopSign
    /\ dlpool = << >>
    /\ analyzerPool = << >>
    /\ reqCache = << >>
    /\ sups = << >>
    /\ dlWorkers = {}
    /\ anWorkers = {}
    /\ minor = << >>
    /\ crashed = "none"
    /\ hist = [called |-> FALSE, ok |-> FALSE, pd |-> << >>]

\* pd, err := getPrimaryDomain(host)
PdCall ==
    /\ ~hist.called
    /\ hist' = [called |-> TRUE, ok |-> getPrimaryDomain(sched.host).ok,
                 pd |-> getPrimaryDomain(sched.host).pd]
    /\ UNCHANGED <<sched, chanman, stopSign, dlpool, analyzerPool, reqCache,
                   sups, dlWorkers, anWorkers, minor, crashed>>
    /\ UNCHANGED poolVars

PdNext == PdCall

PdSpec == PdInit /\ [][PdNext]_vars

\* C17: getPrimaryDomain gives "example.com" for "www.example.com",
\* "example.co.uk" for "a.b.example.co.uk", "example.tv" for "example.tv",
\* the host itself for the dotted quad "10.0.0.1", and an error for
\* "localhost".
C17_PrimaryDomainExamples ==
    hist.called =>
        /\ (sched.host = <<"www", "example", "com">>
                => (hist.ok /\ hist.pd = <<"example", "com">>))
        /\ (sched.host = <<"a", "b", "example", "co", "uk">>
                => (hist.ok /\ hist.pd = <<"example", "co", "uk">>))
        /\ (sched.host = <<"example", "tv">>
                => (hist.ok /\ hist.pd = <<"example", "tv">>))
        /\ (sched.host = <<"10", "0", "0", "1">>
                => (hist.ok /\ hist.pd = <<"10", "0", "0", "1">>))
        /\ (sched.host = <<"localhost">> => ~hist.ok)

\* ------------------------------------------------------------------------
\* The stop sign (part_003) on its own: NumCallers goroutines call Sign,
\* Signed, Deal, Reset, DealCount and DealTotal.  rwmutex is the
\* sync.RWMutex of the stop sign: readerCount read locks are held, and a
\* writer has the write lock ("held") or has announced itself and waits for
\* the readers to leave ("pending").
\* ------------------------------------------------------------------------
MaxOps == 4

DealCodes == {SCHEDULER_CODE, ITEMPIPELINE_CODE}

\* Sign(): the value returned
SignReturns(ss) == ~ss.signed

\* Reset(), lines 67-72
Reset(ss) ==
    [ss EXCEPT !.signed = FALSE, !.dealCountMap = [c \in DOMAIN @ |-> 0]]

SsInit ==
    /\ pool = NewPool(NumEntities)
    /\ callers = [c \in Callers |-> [pc |-> "idle", code |-> SCHEDULER_CODE,
                                      last |-> "none", count |-> 0]]
    /\ takenSince = << >>
    /\ sched = [running |-> 0]
    /\ chanman = [status |-> CHANNEL_MANAGER_STATUS_UNINITIALIZED]
    /\ stopSign = [signed |-> FALSE, dealCountMap |-> [c \in Codes |-> 0],
                   rwmutex |-> [readerCount |-> 0, writer |-> "none"]]
    /\ dlpool = << >>
    /\ analyzerPool = << >>
    /\ reqCache = << >>
    /\ sups = << >>
    /\ dlWorkers = {}
    /\ anWorkers = {}
    /\ minor = << >>
    /\ crashed = "none"
    /\ hist = [ops |-> 0]

ssFixed ==
    <<pool, takenSince, sched, chanman, dlpool, analyzerPool, reqCache, sups,
      dlWorkers, anWorkers, minor>>

BoolString(b) == IF b THEN "true" ELSE "false"

\* rwmutex.Lock() of Sign, Deal and Reset (lines 41, 55, 68): one writer at
\* a time gets past the inner mutex; it has the lock when no reader holds it
SsLock(c, op, code) ==
    /\ Alive
    /\ callers[c].pc = "idle"
    /\ hist.ops < MaxOps
    /\ stopSign.rwmutex.writer = "none"
    /\ stopSign' = [stopSign EXCEPT !.rwmutex.writer =
                        IF stopSign.rwmutex.readerCount = 0 THEN "held" ELSE "pending"]
    /\ callers' = [callers EXCEPT ![c].pc = op, ![c].code = code]
    /\ hist' = [hist EXCEPT !.ops = @ + 1]
    /\ UNCHANGED crashed
    /\ UNCHANGED ssFixed

\* Sign(), lines 43-47, and the deferred Unlock
SsSign(c) ==
    /\ Alive
    /\ callers[c].pc = "sign"
    /\ stopSign.rwmutex.writer = "held"
    /\ stopSign' = [Sign(stopSign) EXCEPT !.rwmutex.writer = "none"]
    /\ callers' = [callers EXCEPT ![c].pc = "idle",
                                  ![c].last = BoolString(SignReturns(stopSign))]
    /\ UNCHANGED <<crashed, hist>>
    /\ UNCHANGED ssFixed

\* Deal(code), lines 57-64, and the deferred Unlock
SsDeal(c) ==
    /\ Alive
    /\ callers[c].pc = "deal"
    /\ stopSign.rwmutex.writer = "held"
    /\ stopSign' = [Deal(stopSign, callers[c].code) EXCEPT !.rwmutex.writer = "none"]
    /\ callers' = [callers EXCEPT ![c].pc = "idle"]
    /\ UNCHANGED <<crashed, hist>>
    /\ UNCHANGED ssFixed

\* Reset(), lines 70-71, and the deferred Unlock
SsReset(c) ==
    /\ Alive
    /\ callers[c].pc = "reset"
    /\ stopSign.rwmutex.writer = "held"
    /\ stopSign' = [Reset(stopSign) EXCEPT !.rwmutex.writer = "none"]
    /\ callers' = [callers EXCEPT ![c].pc = "idle"]
    /\ UNCHANGED <<crashed, hist>>
    /\ UNCHANGED ssFixed

\* Signed(), lines 50-52: reads the flag with no lock
SsSigned(c) ==
    /\ Alive
    /\ callers[c].pc = "idle"
    /\ hist.ops < MaxOps
    /\ callers' = [callers EXCEPT ![c].last = BoolString(Signed(stopSign))]
    /\ hist' = [hist EXCEPT !.ops = @ + 1]
    /\ UNCHANGED <<stopSign, crashed>>
    /\ UNCHANGED ssFixed

\* rwmutex.RLock() of DealCount and DealTotal (lines 75, 81): blocks while
\* a writer has the lock or waits for it
SsRLock(c, op, code) ==
    /\ Alive
    /\ callers[c].pc = "idle"
    /\ hist.ops < MaxOps
    /\ stopSign.rwmutex.writer = "none"
    /\ stopSign' = [stopSign EXCEPT !.rwmutex.readerCount = @ + 1]
    /\ callers' = [callers EXCEPT ![c].pc = op, ![c].code = code]
    /\ hist' = [hist EXCEPT !.ops = @ + 1]
    /\ UNCHANGED crashed
    /\ UNCHANGED ssFixed

\* DealCount and DealTotal, lines 76-77 and 82-87: the value is read and the
\* deferred rwmutex.Unlock() runs while the caller holds a read lock.  With
\* no writer, Unlock is the fatal error "sync: Unlock of unlocked RWMutex".
\* With a writer waiting for the readers, Unlock takes back the writer's
\* announcement and unlocks the writers' mutex: the call returns, its read
\* lock is never released, and the waiting writer is never woken.
SsReadUnlock(c) ==
    /\ Alive
    /\ callers[c].pc \in {"dealcount", "dealtotal"}
    /\ IF stopSign.rwmutex.writer = "none"
       THEN /\ crashed' = "fatal error: sync: Unlock of unlocked RWMutex"
            /\ UNCHANGED <<stopSign, callers>>
       ELSE /\ crashed' = crashed
            /\ stopSign' = [stopSign EXCEPT !.rwmutex.writer = "none"]
            /\ callers' =
                 [d \in Callers |->
                    IF d = c
                    THEN [callers[c] EXCEPT
                            !.pc = "idle",
                            !.count = IF callers[c].pc = "dealcount"
                                      THEN DealCount(stopSign, callers[c].code)
                                      ELSE DealTotal(stopSign)]
                    ELSE IF callers[d].pc \in {"sign", "deal", "reset"}
                         THEN [callers[d] EXCEPT !.pc = "lost"]
                         ELSE callers[d]]
    /\ UNCHANGED hist
    /\ UNCHANGED ssFixed

SsNext ==
    \/ \E c \in Callers, op \in {"sign", "deal", "reset"}, code \in DealCodes :
          SsLock(c, op, code)
    \/ \E c \in Callers : SsSign(c)
    \/ \E c \in Callers : SsDeal(c)
    \/ \E c \in Callers : SsReset(c)
    \/ \E c \in Callers : SsSigned(c)
    \/ \E c \in Callers, op \in {"dealcount", "dealtotal"}, code \in DealCodes :
          SsRLock(c, op, code)
    \/ \E c \in Callers : SsReadUnlock(c)

SsSpec == SsInit /\ [][SsNext]_vars

\* C18: Sign() returns true exactly when it moves the flag from unsigned to
\* signed, and false on every call while the flag is signed; Deal(code) adds
\* one to the count of code when the flag is signed and changes nothing
\* when it is not; Reset clears the flag and every count; so all counts are
\* zero whenever the flag is unsigned.
C18_StopSignStateMachine ==
    /\ [](~stopSign.signed => \A k \in Codes : stopSign.dealCountMap[k] = 0)
    /\ [][\A c \in Callers :
            /\ SsSign(c) =>
                  /\ stopSign'.signed
                  /\ callers'[c].last = BoolString(~stopSign.signed)
                  /\ stopSign'.dealCountMap = stopSign.dealCountMap
            /\ SsDeal(c) =>
                  /\ stopSign'.signed = stopSign.signed
                  /\ \A k \in Codes :
                        stopSign'.dealCountMap[k] =
                            IF stopSign.signed /\ k = callers[c].code
                            THEN stopSign.dealCountMap[k] + 1
                            ELSE stopSign.dealCountMap[k]
            /\ SsReset(c) =>
                  /\ ~stopSign'.signed
                  /\ \A k \in Codes : stopSign'.dealCountMap[k] = 0]_vars

\* the flag is signed, a later Sign returned false and a Deal was counted
\* while no call is in progress
C18_Witness ==
    /\ stopSign.signed
    /\ \E c \in Callers : callers[c].last = "false"
    /\ DealCount(stopSign, SCHEDULER_CODE) = 1
    /\ \A c \in Callers : callers[c].pc = "idle"

\* the read locks held by calls in progress
ReadsInProgress ==
    Cardinality({c \in Callers : callers[c].pc \in {"dealcount", "dealtotal"}})

\* C19: DealCount and DealTotal release the lock they took: no call ends
\* in a fatal error, the read locks held are those of the calls in
\* progress, and no Sign, Deal or Reset is left waiting for ever.
C19_ReadsReleaseTheirLock ==
    /\ crashed = "none"
    /\ stopSign.rwmutex.readerCount = ReadsInProgress
    /\ \A c \in Callers : callers[c].pc # "lost"

\* ------------------------------------------------------------------------
\* The channel manager (middleware/chanmanager.go) on its own: NumCallers
\* goroutines call Close and the four accessors on an initialized manager.
\* closes counts the close() calls made on each channel; rwmutex is the
\* manager's sync.RWMutex.
\* ------------------------------------------------------------------------
Channels == {"reqCh", "respCh", "itemCh", "errorCh"}

\* A Close that goes on whatever the status is.
CloseReturnsAlways(cm) == TRUE

\* Close(), lines 84-86 and 92: the value returned
CloseReturns(cm) == cm.status = CHANNEL_MANAGER_STATUS_INITIALIZED

\* Close(), lines 84-92
CloseChannels(cm) ==
    IF CloseReturns(cm)
    THEN [cm EXCEPT !.closes = [ch \in Channels |-> @[ch] + 1],
                    !.status = CHANNEL_MANAGER_STATUS_CLOSED]
    ELSE cm

CmInit ==
    /\ pool = NewPool(NumEntities)
    /\ callers = [c \in Callers |-> [pc |-> "idle", last |-> "none"]]
    /\ takenSince = << >>
    /\ sched = [running |-> 0]
    /\ chanman = [status |-> CHANNEL_MANAGER_STATUS_INITIALIZED,
                  reqCh |-> << >>, respCh |-> << >>, itemCh |-> 0, errorCh |-> 0,
                  closes |-> [ch \in Channels |-> 0],
                  rwmutex |-> [readerCount |-> 0, writer |-> FALSE]]
    /\ stopSign = NewStopSign
    /\ dlpool = << >>
    /\ analyzerPool = << >>
    /\ reqCache = << >>
    /\ sups = << >>
    /\ dlWorkers = {}
    /\ anWorkers = {}
    /\ minor = << >>
    /\ crashed = "none"
    /\ hist = [ops |-> 0]

cmFixed ==
    <<pool, takenSince, sched, stopSign, dlpool, analyzerPool, reqCache, sups,
      dlWorkers, anWorkers, minor, crashed>>

\* Close(), line 82: rwmutex.Lock(); the writer is announced and new
\* readers wait
CmLock(c) ==
    /\ callers[c].pc = "idle"
    /\ hist.ops < MaxOps
    /\ ~chanman.rwmutex.writer
    /\ chanman' = [chanman EXCEPT !.rwmutex.writer = TRUE]
    /\ callers' = [callers EXCEPT ![c].pc = "close"]
    /\ hist' = [hist EXCEPT !.ops = @ + 1]
    /\ UNCHANGED cmFixed

\* Close(), lines 84-92 once the readers have left, and the deferred Unlock
CmClose(c) ==
    /\ callers[c].pc = "close"
    /\ chanman.rwmutex.readerCount = 0
    /\ chanman' = [CloseChannels(chanman) EXCEPT !.rwmutex.writer = FALSE]
    /\ callers' = [callers EXCEPT ![c].pc = "idle",
                                  ![c].last = BoolString(CloseReturns(chanman))]
    /\ UNCHANGED hist
    /\ UNCHANGED cmFixed

\* ReqChan, RespChan, ItemChan, ErrorChan, lines 108, 117, 126, 135:
\* rwmutex.RLock()
CmRLock(c, ch) ==
    /\ callers[c].pc = "idle"
    /\ hist.ops < MaxOps
    /\ ~chanman.rwmutex.writer
    /\ chanman' = [chanman EXCEPT !.rwmutex.readerCount = @ + 1]
    /\ callers' = [callers EXCEPT ![c].pc = ch]
    /\ hist' = [hist EXCEPT !.ops = @ + 1]
    /\ UNCHANGED cmFixed

\* the accessors, lines 110-113 and the like: checkStatus, the channel or
\* the error, and the deferred RUnlock
CmAccess(c) ==
    /\ callers[c].pc \in Channels
    /\ chanman' = [chanman EXCEPT !.rwmutex.readerCount = @ - 1]
    /\ callers' = [callers EXCEPT
                     ![c].pc = "idle",
                     ![c].last = IF checkStatus(chanman) THEN callers[c].pc
                                 ELSE "error"]
    /\ UNCHANGED hist
    /\ UNCHANGED cmFixed

CmNext ==
    \/ \E c \in Callers : CmLock(c)
    \/ \E c \in Callers : CmClose(c)
    \/ \E c \in Callers, ch \in Channels : CmRLock(c, ch)
    \/ \E c \in Callers : CmAccess(c)

CmSpec == CmInit /\ [][CmNext]_vars

\* C20: on an initialized channel manager each of the four channels is
\* closed once, by the first Close, which returns true; every later Close
\* returns false and closes nothing; and an accessor returns its channel
\* exactly when the status is INITIALIZED and an error otherwise.
C20_ChannelManagerLifecycle ==
    /\ [](\A ch \in Channels :
            chanman.closes[ch] = IF ChannelsClosed(chanman) THEN 1 ELSE 0)
    /\ [][\A c \in Callers :
            /\ CmClose(c) =>
                  IF chanman.status = CHANNEL_MANAGER_STATUS_INITIALIZED
                  THEN /\ callers'[c].last = "true"
                       /\ chanman'.status = CHANNEL_MANAGER_STATUS_CLOSED
                  ELSE /\ callers'[c].last = "false"
                       /\ chanman'.status = chanman.status
                       /\ chanman'.closes = chanman.closes
            /\ CmAccess(c) =>
                  /\ callers'[c].last =
                        IF chanman.status = CHANNEL_MANAGER_STATUS_INITIALIZED
                        THEN callers[c].pc ELSE "error"
                  /\ chanman'.status = chanman.status
                  /\ chanman'.closes = chanman.closes]_vars

\* the manager is closed, a second Close has returned false and an
\* accessor called after the Close has returned the error
C20_Witness ==
    /\ ChannelsClosed(chanman)
    /\ \E c \in Callers : callers[c].last = "false"
    /\ \E c \in Callers : callers[c].last = "error"

\* the Send calls at a place of Send
SendsAt(pcs) == Cardinality({c \in Callers : callers[c].pc \in pcs})

\* C22: sent >= accepted >= processed in every state; a Send of a nil item
\* adds one to sent only and returns an error; a Send of an item that is not
\* nil adds one to sent, then to accepted, then to processed, whatever the
\* processors return and whether or not failFast stops the chain.
C22_ItemPipelineCounters ==
    /\ [](LET ip == sched.itemPipeline
          IN  /\ ip.sent >= ip.accepted /\ ip.accepted >= ip.processed
              /\ ip.sent = hist.sends
              /\ ip.accepted = hist.accepts - SendsAt({"accept"})
              /\ ip.processed = hist.accepts - SendsAt({"accept", "process"}))
    /\ [][\A c \in Callers :
            /\ SendEnter(c, TRUE) =>
                  /\ callers'[c].pc = "return" /\ callers'[c].errs = 1
                  /\ sched'.itemPipeline.sent = sched.itemPipeline.sent + 1
                  /\ sched'.itemPipeline.accepted = sched.itemPipeline.accepted
                  /\ sched'.itemPipeline.processed = sched.itemPipeline.processed
            /\ (\E ps \in ProcessorLists : SendProcess(c, ps)) =>
                  /\ sched'.itemPipeline.processed = sched.itemPipeline.processed + 1
                  /\ sched'.itemPipeline.accepted = sched.itemPipeline.accepted
                  /\ sched'.itemPipeline.sent = sched.itemPipeline.sent]_vars

\* MaxSends calls have returned with failFast set: one of a nil item, which
\* returned its error, the others accepted and processed
C22_Witness ==
    /\ hist.sends = MaxSends
    /\ hist.accepts = MaxSends - 1
    /\ sched.itemPipeline.failFast
    /\ sched.itemPipeline.processed = MaxSends - 1
    /\ \A c \in Callers : callers[c].pc = "idle"
    /\ \E c \in Callers : callers[c].errs = 1

\* ------------------------------------------------------------------------
\* One run of analyze (scheduler.go:285-335) after its Take, on its own,
\* with the goroutines its sendError calls start and a Stop beside it.  What
\* Analyze returned is taken as given: errs, the number of its errors, and
\* dataList, each datum by its dynamic type.  The error k of Analyze is
\* written <<"errs", k>> and the "Unsupported data type" error of datum j
\* <<"data", j>>.  The worker holds analyzer 1.
\* ------------------------------------------------------------------------
MaxErrs == 2
MaxData == 2

DataKinds == {"nil", "item", "request", "other"}

AnalyzeResults ==
    [errs : 0..MaxErrs,
     dataList : UNION {[1..n -> DataKinds] : n \in 0..MaxData}]

\* An analyze whose last block runs whenever Analyze returned errors.
ResendsOnErrs(err, errs) == errs > 0

\* line 329: if err != nil; err is the variable assigned by Take at line 294
Resends(err, errs) == err

AnzInit ==
    /\ pool = NewPool(NumEntities)
    /\ callers = << >>
    /\ takenSince = << >>
    /\ sched = << >>
    /\ chanman = [closed |-> FALSE, errorCh |-> << >>]
    /\ stopSign = NewStopSign
    /\ dlpool = << >>
    /\ analyzerPool = << >>
    /\ reqCache = << >>
    /\ sups = << >>
    /\ dlWorkers = {}
    \* past line 299 the err of Take is nil
    /\ \E r \in AnalyzeResults :
          anWorkers = [pc |-> "errs", i |-> 1, err |-> FALSE,
                       errs |-> r.errs, dataList |-> r.dataList]
    /\ minor = << >>
    /\ crashed = "none"
    /\ hist = [handed |-> << >>, sent |-> << >>, senders |-> << >>,
               items |-> 0, reqs |-> 0]

anzFixed == <<sched, dlpool, analyzerPool, reqCache, sups, dlWorkers, minor>>

\* sendError(e, code), lines 255-270, called by the worker: a signed stop
\* sign is acknowledged, otherwise a goroutine is started for the send
AnzCallSendError(e, code) ==
    /\ hist' = [hist EXCEPT !.handed = Append(@, e),
                            !.senders = IF Signed(stopSign) THEN @
                                        ELSE Append(@, e)]
    /\ stopSign' = IF Signed(stopSign) THEN Deal(stopSign, code) ELSE stopSign

\* lines 307-311 and 329-333: one turn of a loop over errs
AnzSendError ==
    /\ Alive
    /\ anWorkers.pc \in {"errs", "again"}
    /\ anWorkers.i <= anWorkers.errs
    /\ AnzCallSendError(<<"errs", anWorkers.i>>, Code("analyzer", 1))
    /\ anWorkers' = [anWorkers EXCEPT !.i = @ + 1]
    /\ UNCHANGED <<chanman, crashed>>
    /\ UNCHANGED anzFixed
    /\ UNCHANGED poolVars

\* the end of a loop over errs: on to line 312, or to the return
AnzErrorsDone ==
    /\ Alive
    /\ anWorkers.pc \in {"errs", "again"}
    /\ anWorkers.i > anWorkers.errs
    /\ anWorkers' = [anWorkers EXCEPT
                        !.pc = IF @ = "errs" THEN "data" ELSE "done", !.i = 1]
    /\ UNCHANGED <<chanman, stopSign, crashed, hist>>
    /\ UNCHANGED anzFixed
    /\ UNCHANGED poolVars

AnzDatum(kind) ==
    /\ Alive
    /\ anWorkers.pc = "data"
    /\ anWorkers.i <= Len(anWorkers.dataList)
    /\ anWorkers.dataList[anWorkers.i] = kind

\* lines 314-316: continue
AnzNilDatum ==
    /\ AnzDatum("nil")
    /\ anWorkers' = [anWorkers EXCEPT !.i = @ + 1]
    /\ UNCHANGED <<chanman, stopSign, crashed, hist>>
    /\ UNCHANGED anzFixed
    /\ UNCHANGED poolVars

\* lines 318-319 with sendItem, lines 337-343; the send on a closed item
\* channel panics and the recover of lines 286-291 ends the run; a reader
\* keeps the item channel from being full
AnzSendItem ==
    /\ AnzDatum("item")
    /\ IF Signed(stopSign)
       THEN /\ stopSign' = Deal(stopSign, Code("analyzer", 1))
            /\ anWorkers' = [anWorkers EXCEPT !.i = @ + 1]
            /\ hist' = hist
       ELSE IF chanman.closed
       THEN /\ anWorkers' = [anWorkers EXCEPT !.pc = "done"]
            /\ UNCHANGED <<stopSign, hist>>
       ELSE /\ anWorkers' = [anWorkers EXCEPT !.i = @ + 1]
            /\ hist' = [hist EXCEPT !.items = @ + 1]
            /\ stopSign' = stopSign
    /\ UNCHANGED <<chanman, crashed>>
    /\ UNCHANGED anzFixed
    /\ UNCHANGED poolVars

\* lines 320-321 with saveReqToCache, lines 345-380: rejected by a rule
\* (logged only), refused by the signed stop sign, or put
AnzSaveReq(admitted) ==
    /\ AnzDatum("request")
    /\ anWorkers' = [anWorkers EXCEPT !.i = @ + 1]
    /\ stopSign' = IF admitted /\ Signed(stopSign)
                   THEN Deal(stopSign, Code("analyzer", 1)) ELSE stopSign
    /\ hist' = IF admitted /\ ~Signed(stopSign)
               THEN [hist EXCEPT !.reqs = @ + 1] ELSE hist
    /\ UNCHANGED <<chanman, crashed>>
    /\ UNCHANGED anzFixed
    /\ UNCHANGED poolVars

\* lines 322-324: the default branch
AnzUnsupported ==
    /\ AnzDatum("other")
    /\ AnzCallSendError(<<"data", anWorkers.i>>, Code("analyzer", 1))
    /\ anWorkers' = [anWorkers EXCEPT !.i = @ + 1]
    /\ UNCHANGED <<chanman, crashed>>
    /\ UNCHANGED anzFixed
    /\ UNCHANGED poolVars

\* the end of the loop over dataList, and line 329
AnzDataDone ==
    /\ Alive
    /\ anWorkers.pc = "data"
    /\ anWorkers.i > Len(anWorkers.dataList)
    /\ anWorkers' = [anWorkers EXCEPT
                        !.pc = IF Resends(anWorkers.err, anWorkers.errs)
                               THEN "again" ELSE "done",
                        !.i = 1]
    /\ UNCHANGED <<chanman, stopSign, crashed, hist>>
    /\ UNCHANGED anzFixed
    /\ UNCHANGED poolVars

\* lines 264-268: the goroutine of one sendError sends on the error
\* channel; on a closed channel the send panics and nothing recovers it
AnzErrorSender(k) ==
    /\ Alive
    /\ k \in 1..Len(hist.senders)
    /\ LET e == hist.senders[k]
           rest == [j \in 1..(Len(hist.senders) - 1) |->
                       IF j < k THEN hist.senders[j] ELSE hist.senders[j + 1]]
       IN  IF chanman.closed
           THEN /\ crashed' = "send on closed channel"
                /\ hist' = [hist EXCEPT !.senders = rest]
                /\ chanman' = chanman
           ELSE /\ Len(chanman.errorCh) < ErrorChanLen
                /\ chanman' = [chanman EXCEPT !.errorCh = Append(@, e)]
                /\ hist' = [hist EXCEPT !.senders = rest, !.sent = Append(@, e)]
                /\ crashed' = crashed
    /\ UNCHANGED <<anWorkers, stopSign>>
    /\ UNCHANGED anzFixed
    /\ UNCHANGED poolVars

\* the user of ErrorChan() receives one error
AnzErrorReceive ==
    /\ Alive
    /\ chanman.errorCh # << >>
    /\ chanman' = [chanman EXCEPT !.errorCh = Tail(@)]
    /\ UNCHANGED <<anWorkers, stopSign, crashed, hist>>
    /\ UNCHANGED anzFixed
    /\ UNCHANGED poolVars

\* Stop, line 430: stopSign.Sign()
AnzStopSign ==
    /\ Alive
    /\ ~Signed(stopSign)
    /\ stopSign' = Sign(stopSign)
    /\ UNCHANGED <<anWorkers, chanman, crashed, hist>>
    /\ UNCHANGED anzFixed
    /\ UNCHANGED poolVars

\* Stop, line 431: chanman.Close()
AnzStopClose ==
    /\ Alive
    /\ Signed(stopSign)
    /\ ~chanman.closed
    /\ chanman' = [chanman EXCEPT !.closed = TRUE]
    /\ UNCHANGED <<anWorkers, stopSign, crashed, hist>>
    /\ UNCHANGED anzFixed
    /\ UNCHANGED poolVars

AnzNext ==
    \/ AnzSendError
    \/ AnzErrorsDone
    \/ AnzNilDatum
    \/ AnzSendItem
    \/ \E admitted \in BOOLEAN : AnzSaveReq(admitted)
    \/ AnzUnsupported
    \/ AnzDataDone
    \/ \E k \in 1..(MaxErrs + MaxData) : AnzErrorSender(k)
    \/ AnzErrorReceive
    \/ AnzStopSign
    \/ AnzStopClose

AnzSpec == AnzInit /\ [][AnzNext]_vars

\* the errors the run can hand to sendError
AnzErrors ==
    {<<"errs", k>> : k \in 1..anWorkers.errs}
        \cup {<<"data", j>> : j \in {n \in 1..Len(anWorkers.dataList) :
                                        anWorkers.dataList[n] = "other"}}

\* C23: in one run of an analyze worker every error of Analyze and every
\* "Unsupported data type" error is handed to sendError at most once, and is
\* put on the error channel at most once; nothing else is handed or put.
C23_ErrorsEmittedOnce ==
    /\ \A e \in AnzErrors :
          /\ Cardinality({n \in 1..Len(hist.handed) : hist.handed[n] = e}) <= 1
          /\ Cardinality({n \in 1..Len(hist.sent) : hist.sent[n] = e}) <= 1
    /\ Range(hist.handed) \subseteq AnzErrors
    /\ Range(hist.sent) \subseteq Range(hist.handed)

\* a run that ended with MaxErrs errors of Analyze and an unsupported datum,
\* all of them handed to sendError and put on the error channel
C23_Witness ==
    /\ anWorkers.pc = "done"
    /\ anWorkers.errs = MaxErrs
    /\ \E j \in 1..Len(anWorkers.dataList) : anWorkers.dataList[j] = "other"
    /\ Range(hist.handed) = AnzErrors
    /\ Range(hist.sent) = AnzErrors

\* C24: a call of saveReqToCache either puts the request into the request
\* cache and adds its URL to the seen set, or leaves both as they were: the
\* step of the rules and of the stop sign changes neither, starts no error
\* sender, and changes the stop sign only by one acknowledgement of the
\* caller's code when the sign is signed; the step of lines 377-378 appends
\* the request to the cache and adds its URL to the seen set.
C24_AdmissionAllOrNothing ==
    [][\A w \in anWorkers :
          /\ AnSaveReqCheck(w) =>
                /\ reqCache' = reqCache
                /\ sched'.urlMap = sched.urlMap
                /\ minor' = minor
                /\ chanman' = chanman
                /\ \/ stopSign' = stopSign
                   \/ /\ Signed(stopSign)
                      /\ saveReqRules(sched, DataOf(w)[w.i]) = "ok"
                      /\ stopSign' = [stopSign EXCEPT
                            !.dealCountMap[Code("analyzer", w.ent)] = @ + 1]
          /\ AnSaveReqPut(w) =>
                /\ Len(reqCache'.cache) = Len(reqCache.cache) + 1
                /\ reqCache'.cache[Len(reqCache'.cache)].url = DataOf(w)[w.i].url
                /\ sched'.urlMap = sched.urlMap \cup {DataOf(w)[w.i].url}
                /\ sched'.urlMap # sched.urlMap]_vars

\* the download workers between their Take and their Return, that is, the
\* Download calls begun and not yet given up, and the same for Analyze
Downloading == {w \in dlWorkers : w.pc # "take"}

Analyzing == {w \in anWorkers : w.pc # "take"}

\* C25: at most downloader_pool_size download workers are between a
\* successful Take and the matching Return, at most analyzer_pool_size
\* analyze workers likewise, and the workers of a stage hold entities that
\* differ.
C25_ConcurrencyBound ==
    /\ Cardinality(Downloading) <= PageDownloaderPoolSize
    /\ Cardinality(Analyzing) <= AnalyzerPoolSize
    /\ \A v, w \in Downloading : v.ent = w.ent => v = w
    /\ \A v, w \in Analyzing : v.ent = w.ent => v = w

\* every downloader is out, and a further download worker waits in Take
C25_Witness ==
    /\ Cardinality(Downloading) = PageDownloaderPoolSize
    /\ ~PoolCanTake(dlpool)
    /\ \E w \in dlWorkers : w.pc = "take"

\* ------------------------------------------------------------------------
\* BurstSpec: a run started at BurstSeed, the page of MaxBurst links to
\* pages that link to nothing.  Its analysis puts MaxBurst requests into the
\* cache at once, so that the feeder finds more requests than the request
\* channel has room for and the download workers more requests than the
\* pool has downloaders.  The site's pages from BurstSeed on hold no item
\* and the parser returns no error for them, so the steps of sendItem, of
\* the item pipeline and of the analyzer's sendError do not occur.
\* ------------------------------------------------------------------------
BurstNext ==
    \/ \E cd \in CrawlDepths, parser \in ParserModes : StartSeed(BurstSeed, cd, parser)
    \/ StartReturn
    \/ FeederCheck
    \/ FeederRemainder
    \/ FeederRemainderPanic
    \/ FeederDrain
    \/ FeederSendPanic
    \/ FeederSendClosed
    \/ DlSupRecv
    \/ DlSupClosed
    \/ DlSupPanic
    \/ \E w \in dlWorkers, fails \in BOOLEAN : DlTake(w, fails)
    \/ \E w \in dlWorkers : DlSendRespCheck(w)
    \/ \E w \in dlWorkers : DlSendResp(w)
    \/ \E w \in dlWorkers : DlSendRespPanic(w)
    \/ \E w \in dlWorkers : DlSendRespClosed(w)
    \/ \E w \in dlWorkers : DlSendError(w)
    \/ ErrSenderSend
    \/ ErrSenderPanic
    \/ ErrSenderClosed
    \/ ErrorChanRead
    \/ AnSupRecv
    \/ AnSupClosed
    \/ AnSupPanic
    \/ \E w \in anWorkers : AnTake(w)
    \/ \E w \in anWorkers : AnSaveReqCheck(w)
    \/ \E w \in anWorkers : AnSaveReqPut(w)
    \/ ItemSupGet
    \/ ItemSupPanic
    \/ ItemSupRecv
    \/ StopBegin
    \/ StopClose
    \/ StopFinish

BurstSpec == Init /\ [][BurstNext]_vars

\* the requests on their way to the download stage, oldest first: the
\* request channel, then the cache
Pending == chanman.reqCh \o reqCache.cache

\* C26: only the feeder sends on the request channel; what it sends is the
\* head of the cache, which goes to the end of the channel; the sends it has
\* left in a tick never exceed the free room of the channel, so no send of
\* the feeder finds the channel full; and the requests stand in the channel
\* and the cache in the order of their entry into the cache (the cache
\* numbers its entries as they come).
C26_FeederDiscipline ==
    /\ [](/\ sups.feeder = "drain" =>
                sups.remainder <= ReqChanLen - Len(chanman.reqCh)
          /\ \A a, b \in 1..Len(Pending) : a < b => Pending[a].id < Pending[b].id)
    /\ [][/\ Len(chanman'.reqCh) > Len(chanman.reqCh) =>
                /\ FeederDrain
                /\ Len(chanman.reqCh) < ReqChanLen
                /\ chanman'.reqCh = Append(chanman.reqCh, Head(reqCache.cache))
                /\ reqCache'.cache = Tail(reqCache.cache)
                /\ sups'.remainder = sups.remainder - 1
          /\ (sups.feeder = "rem" /\ sups'.feeder = "drain") =>
                sups'.remainder = ReqChanLen - Len(chanman.reqCh)]_vars

\* the feeder has used up the free room of the channel in this tick, the
\* channel is full, and the cache holds a request that entered it later
C26_Witness ==
    /\ sups.feeder = "drain"
    /\ sups.remainder = 0
    /\ Len(chanman.reqCh) = ReqChanLen
    /\ reqCache.cache # << >>
    /\ chanman.reqCh[ReqChanLen].id < Head(reqCache.cache).id

\* ------------------------------------------------------------------------
\* LiveSpec: the run of BurstSpec in which Stop is never called, with every
\* goroutine of the scheduler scheduled fairly.  Without Stop no channel is
\* closed and no accessor fails, so the steps that meet a closed channel
\* manager do not occur.  The user's reading of ErrorChan() is a step of
\* LiveSpec but nothing is assumed of it.
\* ------------------------------------------------------------------------
Feeder == FeederCheck \/ FeederRemainder \/ FeederDrain

DlWorkerStep ==
    \/ \E w \in dlWorkers, fails \in BOOLEAN : DlTake(w, fails)
    \/ \E w \in dlWorkers : DlSendRespCheck(w)
    \/ \E w \in dlWorkers : DlSendResp(w)
    \/ \E w \in dlWorkers : DlSendError(w)

AnWorkerStep ==
    \/ \E w \in anWorkers : AnTake(w)
    \/ \E w \in anWorkers : AnSaveReqCheck(w)
    \/ \E w \in anWorkers : AnSaveReqPut(w)

LiveNext ==
    \/ \E cd \in CrawlDepths, parser \in ParserModes : StartSeed(BurstSeed, cd, parser)
    \/ Feeder
    \/ DlSupRecv
    \/ DlWorkerStep
    \/ ErrSenderSend
    \/ ErrorChanRead
    \/ AnSupRecv
    \/ AnWorkerStep
    \/ ItemSupGet

LiveSpec ==
    /\ Init
    /\ [][LiveNext]_vars
    /\ WF_vars(Feeder)
    /\ WF_vars(DlSupRecv)
    /\ WF_vars(DlWorkerStep)
    /\ WF_vars(AnSupRecv)
    /\ WF_vars(AnWorkerStep)
    /\ WF_vars(ErrSenderSend)
    /\ WF_vars(ItemSupGet)

\* the request numbered id is in the cache; it has been received by the
\* download supervisor, which started a download worker for it
InCache(id) == \E i \in 1..Len(reqCache.cache) : reqCache.cache[i].id = id

Handed(id) ==
    \/ \E w \in dlWorkers : w.req.id = id
    \/ \E r \in hist.fetched : r.id = id

\* C27: while Stop is not called and the goroutines are scheduled fairly,
\* every request put into the cache is in time sent on the request channel
\* and handed to a download worker; an analyze worker at the put of a new
\* request can always take that step, whatever the request channel holds;
\* and while a request is in the cache or the channel, the feeder or the
\* download supervisor can take a step.
C27_ProgressWithoutStop ==
    /\ \A id \in 1..(MaxBurst + 1) : InCache(id) ~> Handed(id)
    /\ [](\A w \in anWorkers : w.pc = "req_put" => ENABLED AnSaveReqPut(w))
    /\ [](Pending # << >> => ENABLED (Feeder \/ DlSupRecv))

\* the seed and the MaxBurst requests of its page have all reached a
\* download worker and been fetched, through a request channel of
\* capacity ReqChanLen
C27_Witness ==
    /\ {r.id : r \in hist.fetched} = 1..(MaxBurst + 1)
    /\ dlWorkers = {}
    /\ Pending = << >>

\* ------------------------------------------------------------------------
\* IdSpec: the scheduler with the downloader of downloader.go, whose Id()
\* is "return dl.Id()".  The downloaders are made by
\* generatePageDownloaderPool (helper.go:19-27), which Start calls at line
\* 114; middleware.NewPool calls Id() on the first entity it has generated
\* (pool.go:48).  A goroutine's stack grows with each nested call until the
\* runtime's limit, MaxFrames frames here, and the runtime then ends the
\* process with "stack overflow", which no recover catches.
\* ------------------------------------------------------------------------
MaxFrames == 12

IdInit ==
    /\ pool = NewPool(NumEntities)
    /\ \E a \in StartArgs :
          callers = [pc |-> "start", args |-> a, frames |-> 0, generated |-> 0]
    /\ takenSince = << >>
    /\ sched = [running |-> 0]
    /\ chanman = [status |-> CHANNEL_MANAGER_STATUS_UNINITIALIZED]
    /\ stopSign = NewStopSign
    /\ dlpool = << >>
    /\ analyzerPool = << >>
    /\ reqCache = << >>
    /\ sups = << >>
    /\ dlWorkers = {}
    /\ anWorkers = {}
    /\ minor = << >>
    /\ crashed = "none"
    /\ hist = << >>

idFixed == <<chanman, stopSign, dlpool, analyzerPool, reqCache, sups,
             dlWorkers, anWorkers, minor, hist>>

\* Start, lines 96-114: the checks before the pools, then
\* generatePageDownloaderPool and NewPool up to the call of Id() at
\* pool.go:48 on the first downloader
IdStart ==
    /\ Alive
    /\ callers.pc = "start"
    /\ sched' = [running |-> 1]
    /\ IF StartStage(callers.args) <= 3
       THEN callers' = [callers EXCEPT !.pc = "returned"]
       ELSE callers' = [callers EXCEPT !.pc = "Id", !.frames = 1,
                                       !.generated = 1]
    /\ UNCHANGED crashed
    /\ UNCHANGED idFixed
    /\ UNCHANGED <<pool, takenSince>>

\* downloader.go:37: Id() calls dl.Id()
IdCallsId ==
    /\ Alive
    /\ callers.pc = "Id"
    /\ callers.frames < MaxFrames
    /\ callers' = [callers EXCEPT !.frames = @ + 1]
    /\ UNCHANGED <<sched, crashed>>
    /\ UNCHANGED idFixed
    /\ UNCHANGED <<pool, takenSince>>

\* the stack limit: fatal error, the process ends
IdStackOverflow ==
    /\ Alive
    /\ callers.pc = "Id"
    /\ callers.frames = MaxFrames
    /\ crashed' = "stack overflow"
    /\ callers' = [callers EXCEPT !.pc = "dead"]
    /\ UNCHANGED sched
    /\ UNCHANGED idFixed
    /\ UNCHANGED <<pool, takenSince>>

IdNext == IdStart \/ IdCallsId \/ IdStackOverflow

IdSpec == IdInit /\ [][IdNext]_vars

\* C28: a call of the downloader's Id() returns the stored id in one step:
\* no call of Id() is nested in another, and the goroutine that called it
\* goes on (a download worker to its Download and its Return); the process
\* is not ended by it.
C28_IdReturnsInOneStep ==
    /\ callers.frames <= 1
    /\ crashed = "none"

\* what a Start that found a configuration error returns
ConfigurationErrors == {StartError(stage) : stage \in 1..6}

\* C29: when the last Start returned a configuration error, Running() is
\* false and no supervisor is left running; a Start is refused as already
\* started only while an earlier Start waits in wg.Wait(); and no Stop()
\* has failed on a scheduler whose Start failed.
C29_FailedStartNotRunning ==
    /\ hist.start.ret \in ConfigurationErrors => (~Running /\ sups.wg = 0)
    /\ hist.start.refused => sups.waiting >= 1
    /\ crashed # "Stop: nil stopSign"

\* the panics of goroutines that recover nothing: the accessor of a channel
\* on the closed channel manager, and the send on a closed channel
UnrecoveredPanics ==
    {"download supervisor: ReqChan", "analyze supervisor: RespChan",
     "item supervisor: ItemChan", "feeder: ReqChan",
     "feeder: send on closed channel", "error sender: ErrorChan",
     "error sender: send on closed channel"}

\* C30: however Stop interleaves with the crawl, neither a supervisor nor
\* the feeder nor an error sender panics: the process is in no state that an
\* unrecovered panic has left, and each of the four tasks is running or has
\* ended by its own return.
C30_StopCrashesNoTask ==
    /\ crashed \notin UnrecoveredPanics
    /\ \A t \in {"dl", "an", "item", "feeder"} : sups[t] # "dead"

\* ------------------------------------------------------------------------
\* GuardSpec: NumCallers goroutines call Start on one scheduler that was
\* never started, up to MaxStarts calls, each with valid arguments or with
\* arguments of one defect.  The guard of Start is two atomic operations,
\* the load of line 96 and the store of line 99, and each is a step; lines
\* 100-156 of a call are one step, which writes the fields that the call's
\* arguments let it reach.  The fields are plain fields written without a
\* lock: of two calls that write them, either may be the last.
\* ------------------------------------------------------------------------
GuardInit ==
    /\ pool = NewPool(NumEntities)
    /\ callers = [c \in Callers |-> [pc |-> "idle", args |-> ValidArgs(0),
                                     ret |-> "none"]]
    /\ takenSince = << >>
    /\ sched = [running |-> 0, crawlDepth |-> 0, made |-> {}]
    /\ chanman = [status |-> CHANNEL_MANAGER_STATUS_UNINITIALIZED]
    /\ stopSign = NewStopSign
    /\ dlpool = << >>
    /\ analyzerPool = << >>
    /\ reqCache = << >>
    /\ sups = [starts |-> 0, wg |-> 0]
    /\ dlWorkers = {}
    /\ anWorkers = {}
    /\ minor = << >>
    /\ crashed = "none"
    /\ hist = [passed |-> {}, wrote |-> {}]

guardFixed == <<chanman, stopSign, dlpool, analyzerPool, reqCache,
                dlWorkers, anWorkers, minor, crashed>>

\* line 96: atomic.LoadUint32(&sched.running) == 1, and the return of
\* line 97
GuardLoad(c, a) ==
    /\ callers[c].pc = "idle"
    /\ sups.starts < MaxStarts
    /\ sups' = [sups EXCEPT !.starts = @ + 1]
    /\ IF StartRefused(sched.running)
       THEN /\ callers' = [callers EXCEPT ![c] = [pc |-> "returned", args |-> a,
                                                  ret |-> "started"]]
            /\ hist' = hist
       ELSE /\ callers' = [callers EXCEPT ![c] = [pc |-> "store", args |-> a,
                                                  ret |-> "none"]]
            /\ hist' = [hist EXCEPT !.passed = @ \cup {c}]
    /\ UNCHANGED sched
    /\ UNCHANGED guardFixed
    /\ UNCHANGED <<pool, takenSince>>

\* line 99: atomic.StoreUint32(&sched.running, 1)
GuardStore(c) ==
    /\ callers[c].pc = "store"
    /\ sched' = [sched EXCEPT !.running = 1]
    /\ callers' = [callers EXCEPT ![c].pc = "init"]
    /\ hist' = [hist EXCEPT !.wrote = @ \cup {c}]
    /\ UNCHANGED sups
    /\ UNCHANGED guardFixed
    /\ UNCHANGED <<pool, takenSince>>

\* lines 100-156: the fields and the supervisors that the call makes before
\* it returns its error or waits in wg.Wait()
GuardInitialize(c) ==
    /\ callers[c].pc = "init"
    /\ LET stage == StartStage(callers[c].args)
       IN  /\ sched' = [sched EXCEPT
                !.crawlDepth = IF stage >= 3 THEN callers[c].args.depth ELSE @,
                !.made = @ \cup (IF stage >= 3 THEN {"chanman"} ELSE {})
                           \cup (IF stage >= 4 THEN {"dlpool", "analyzerPool"} ELSE {})
                           \cup (IF stage >= 5
                                 THEN {"itemPipeline", "stopSign", "urlMap", "reqCache"}
                                 ELSE {})]
           /\ sups' = [sups EXCEPT !.wg = IF stage >= 5 THEN @ + 4 ELSE @]
           /\ callers' = [callers EXCEPT
                ![c].pc = IF stage = 7 THEN "waiting" ELSE "returned",
                ![c].ret = StartError(stage)]
    /\ UNCHANGED hist
    /\ UNCHANGED guardFixed
    /\ UNCHANGED <<pool, takenSince>>

\* the caller goes on after a Start that returned
GuardReturned(c) ==
    /\ callers[c].pc = "returned"
    /\ callers' = [callers EXCEPT ![c].pc = "idle"]
    /\ UNCHANGED <<sched, sups, hist>>
    /\ UNCHANGED guardFixed
    /\ UNCHANGED <<pool, takenSince>>

GuardNext ==
    \/ \E c \in Callers, a \in StartArgs : GuardLoad(c, a)
    \/ \E c \in Callers : GuardStore(c)
    \/ \E c \in Callers : GuardInitialize(c)
    \/ \E c \in Callers : GuardReturned(c)

GuardSpec == GuardInit /\ [][GuardNext]_vars

\* C31: of the Start calls on a scheduler never started before, at most one
\* passes the guard of lines 96-98 and writes the scheduler's fields, and at
\* most four supervisors are started.
C31_StartGuardExclusive ==
    /\ Cardinality(hist.passed) <= 1
    /\ Cardinality(hist.wrote) <= 1
    /\ sups.wg <= 4

====
